---- MODULE Spec2Model ----
(***************************************************************************)
(* Model of src/src/tfl/server.py: the TfL MCP server.                     *)
(*                                                                         *)
(* JSON values and Python objects are tagged records:                      *)
(*   [t |-> "null"]              None / JSON null                          *)
(*   [t |-> "str",  v |-> "x"]   a str                                     *)
(*   [t |-> "num",  v |-> 3]     an int                                    *)
(*   [t |-> "bool", v |-> TRUE]  a bool                                    *)
(*   [t |-> "list", v |-> <<>>]  a list                                    *)
(*   [t |-> "obj", k |-> <<"a", "b">>, v |-> [a |-> x, b |-> y]]           *)
(*                               a dict: k lists its keys in insertion     *)
(*                               order, v maps each key to its value       *)
(*   [t |-> "exc",  v |-> "E"]   the evaluation raised exception E         *)
(*   [t |-> "missing"]           only inside the argument of JObj: the key *)
(*                               is left out of the dict                   *)
(* Python strings are TLA+ strings over the characters with code points 1  *)
(* to 255; a character above 127 takes two bytes in UTF-8.                 *)
(***************************************************************************)
EXTENDS Integers, Sequences, FiniteSets, TLC

JNull == [t |-> "null"]
JMissing == [t |-> "missing"]
JStr(s) == [t |-> "str", v |-> s]
JNum(n) == [t |-> "num", v |-> n]
JBool(b) == [t |-> "bool", v |-> b]
JList(s) == [t |-> "list", v |-> s]
Exc(e) == [t |-> "exc", v |-> e]

\* The dict with the keys keys[1], keys[2], ... inserted in this order and
\* the values vals[1], vals[2], ...
JDict(keys, vals) ==
  [t |-> "obj", k |-> keys,
   v |-> [x \in {keys[i] : i \in 1..Len(keys)} |->
            vals[CHOOSE i \in 1..Len(keys) : keys[i] = x]]]

\* The order in which the documents and arguments of the model write their
\* keys.
KeyOrder == <<"name", "id", "commonName", "modeName", "matches", "stopPoints",
              "lineStatuses", "statusSeverityDescription", "reason",
              "lineName", "destinationName", "platformName", "expectedArrival",
              "additionalProperties", "key", "value", "category",
              "modes", "zones", "lines", "distance", "routeSections",
              "description", "isTflService", "isScheduledService", "message",
              "station", "location", "lat", "lon", "radius", "extra",
              "app_key", "app_id", "query">>

\* The elements of a set of strings in some fixed order.
RECURSIVE SetToSeq(_)
SetToSeq(S) ==
  IF S = {} THEN <<>>
  ELSE LET x == CHOOSE x \in S : TRUE IN <<x>> \o SetToSeq(S \ {x})

\* The dict written as the record r: the fields of r that are not "missing",
\* inserted in the order of KeyOrder (fields KeyOrder does not list come after
\* those it lists).
JObj(r) ==
  LET present == {x \in DOMAIN r : r[x].t # "missing"}
      listed == SelectSeq(KeyOrder, LAMBDA x : x \in present)
      others == SetToSeq(present \ {KeyOrder[i] : i \in 1..Len(KeyOrder)})
  IN [t |-> "obj", k |-> listed \o others, v |-> [x \in present |-> r[x]]]

IsExc(j) == j.t = "exc"

\* The first raised exception of a sequence of evaluated values, in order.
RECURSIVE FirstExc(_)
FirstExc(vals) ==
  IF vals = <<>> THEN JNull
  ELSE IF IsExc(Head(vals)) THEN Head(vals)
  ELSE FirstExc(Tail(vals))

\* ---------------------------------------------------------------------
\* Python built-ins used by the server
\* ---------------------------------------------------------------------

\* key in dict
Has(j, k) == j.t = "obj" /\ k \in DOMAIN j.v

\* bool(x)
Truthy(j) ==
  CASE j.t = "null" -> FALSE
    [] j.t = "missing" -> FALSE
    [] j.t = "str" -> j.v # ""
    [] j.t = "num" -> j.v # 0
    [] j.t = "bool" -> j.v
    [] j.t = "list" -> j.v # <<>>
    [] j.t = "obj" -> j.k # <<>>
    [] OTHER -> FALSE

\* x.get(k, d)
PyGet(j, k, d) ==
  IF IsExc(j) THEN j
  ELSE IF j.t = "obj" THEN (IF Has(j, k) THEN j.v[k] ELSE d)
  ELSE Exc("AttributeError")

\* x[k] for a string key k
PyItem(j, k) ==
  IF IsExc(j) THEN j
  ELSE IF j.t = "obj" THEN (IF Has(j, k) THEN j.v[k] ELSE Exc("KeyError"))
  ELSE Exc("TypeError")

\* x[0]
PyFirst(j) ==
  IF IsExc(j) THEN j
  ELSE CASE j.t = "list" -> (IF j.v = <<>> THEN Exc("IndexError") ELSE j.v[1])
         [] j.t = "str" -> (IF j.v = "" THEN Exc("IndexError")
                            ELSE JStr(SubSeq(j.v, 1, 1)))
         [] j.t = "obj" -> Exc("KeyError")
         [] OTHER -> Exc("TypeError")

Min(a, b) == IF a <= b THEN a ELSE b

\* x[-n:], the last n elements instead of the first
PySlice_tail(j, n) ==
  IF IsExc(j) THEN j
  ELSE CASE j.t = "list" ->
              JList(SubSeq(j.v, Len(j.v) - Min(n, Len(j.v)) + 1, Len(j.v)))
         [] j.t = "str" ->
              JStr(SubSeq(j.v, Len(j.v) - Min(n, Len(j.v)) + 1, Len(j.v)))
         [] OTHER -> Exc("TypeError")

\* x[:n]
PySlice(j, n) ==
  IF IsExc(j) THEN j
  ELSE CASE j.t = "list" -> JList(SubSeq(j.v, 1, Min(n, Len(j.v))))
         [] j.t = "str" -> JStr(SubSeq(j.v, 1, Min(n, Len(j.v))))
         [] OTHER -> Exc("TypeError")

\* list(d) for a dict d: its keys in insertion order
PyKeys(j) == [i \in 1..Len(j.k) |-> JStr(j.k[i])]

RECURSIVE Chars(_)
Chars(s) == IF s = "" THEN <<>>
            ELSE <<JStr(SubSeq(s, 1, 1))>> \o Chars(SubSeq(s, 2, Len(s)))

\* list(x): the elements a for-loop over x visits, or the TypeError it raises
PyIter(j) ==
  IF IsExc(j) THEN j
  ELSE CASE j.t = "list" -> j
         [] j.t = "obj" -> JList(PyKeys(j))
         [] j.t = "str" -> JList(Chars(j.v))
         [] OTHER -> Exc("TypeError")

\* ---------------------------------------------------------------------
\* Characters
\* ---------------------------------------------------------------------

\* The characters in code order: 1 to 31, 32 (space) to 95 (_), 97 (a) to
\* 126 (~) and 127 to 255.  Code 96 cannot be written in a string of the
\* model.
Control == "\t\n\f\r"
AsciiLow == " !\"#$%&'()*+,-./0123456789:;<=>?@ABCDEFGHIJKLMNOPQRSTUVWXYZ[\\]^_"
AsciiHigh == "abcdefghijklmnopqrstuvwxyz{|}~"
Latin1High == " ¡¢£¤¥¦§¨©ª«¬­®¯°±²³´µ¶·¸¹º»¼½¾¿ÀÁÂÃÄÅÆÇÈÉÊËÌÍÎÏÐÑÒÓÔÕÖ×ØÙÚÛÜÝÞßàáâãäåæçèéêëìíîïðñòóôõö÷øùúûüýþÿ"

\* The code point of every character
OrdTable ==
  [c \in {SubSeq(Control, i, i) : i \in 1..Len(Control)}
         \cup {SubSeq(AsciiLow, i, i) : i \in 1..Len(AsciiLow)}
         \cup {SubSeq(AsciiHigh, i, i) : i \in 1..Len(AsciiHigh)}
         \cup {SubSeq(Latin1High, i, i) : i \in 1..Len(Latin1High)} |->
     IF \E i \in 1..Len(Control) : SubSeq(Control, i, i) = c
     THEN CHOOSE i \in 1..Len(Control) : SubSeq(Control, i, i) = c
     ELSE IF \E i \in 1..Len(AsciiLow) : SubSeq(AsciiLow, i, i) = c
     THEN 31 + (CHOOSE i \in 1..Len(AsciiLow) : SubSeq(AsciiLow, i, i) = c)
     ELSE IF \E i \in 1..Len(AsciiHigh) : SubSeq(AsciiHigh, i, i) = c
     THEN 96 + (CHOOSE i \in 1..Len(AsciiHigh) : SubSeq(AsciiHigh, i, i) = c)
     ELSE 126 + (CHOOSE i \in 1..Len(Latin1High) : SubSeq(Latin1High, i, i) = c)]

\* ord(c) of a one-character string
Ord(c) == IF c \in DOMAIN OrdTable THEN OrdTable[c] ELSE 96

\* c.isspace(): \t \n \x0b \f \r, \x1c to \x1f, space, \x85 and \xa0
Whitespace ==
  {c \in DOMAIN OrdTable :
     OrdTable[c] \in (9..13) \cup (28..32) \cup {133, 160}}

\* c.isprintable()
IsPrintable(c) ==
  LET o == Ord(c) IN o >= 32 /\ ~(o >= 127 /\ o <= 160) /\ o # 173

HexDigits == "0123456789abcdef"

\* The text repr() writes for the character c of a str quoted with quote
ReprChar(c, quote) ==
  CASE c = "\\" -> "\\\\"
    [] c = quote -> "\\" \o quote
    [] c = "\t" -> "\\t"
    [] c = "\n" -> "\\n"
    [] c = "\r" -> "\\r"
    [] OTHER ->
         IF IsPrintable(c) THEN c
         ELSE "\\x" \o SubSeq(HexDigits, (Ord(c) \div 16) + 1, (Ord(c) \div 16) + 1)
                    \o SubSeq(HexDigits, (Ord(c) % 16) + 1, (Ord(c) % 16) + 1)

RECURSIVE ReprChars(_, _)
ReprChars(s, quote) ==
  IF s = "" THEN ""
  ELSE ReprChar(SubSeq(s, 1, 1), quote) \o ReprChars(SubSeq(s, 2, Len(s)), quote)

\* c occurs in s
HasChar(s, c) == \E i \in 1..Len(s) : SubSeq(s, i, i) = c

\* repr(s) of a str: in double quotes when s has a ' and no ", else in '
ReprStr(s) ==
  LET quote == IF HasChar(s, "'") /\ ~HasChar(s, "\"") THEN "\"" ELSE "'"
  IN quote \o ReprChars(s, quote) \o quote

RECURSIVE PyRepr(_)
RECURSIVE ReprItems(_)
RECURSIVE ReprKeys(_, _)
\* str(x), as an f-string or str() renders it
PyStr(j) ==
  CASE j.t = "str" -> j.v
    [] j.t = "num" -> ToString(j.v)
    [] j.t = "bool" -> (IF j.v THEN "True" ELSE "False")
    [] j.t = "null" -> "None"
    [] OTHER -> PyRepr(j)

\* repr(x)
PyRepr(j) ==
  CASE j.t = "str" -> ReprStr(j.v)
    [] j.t = "num" -> ToString(j.v)
    [] j.t = "bool" -> (IF j.v THEN "True" ELSE "False")
    [] j.t = "null" -> "None"
    [] j.t = "list" -> "[" \o ReprItems(j.v) \o "]"
    [] j.t = "obj" -> "{" \o ReprKeys(j, 1) \o "}"
    [] OTHER -> ""

ReprItems(s) ==
  IF s = <<>> THEN ""
  ELSE IF Len(s) = 1 THEN PyRepr(s[1])
  ELSE PyRepr(s[1]) \o ", " \o ReprItems(Tail(s))

\* The items of the dict j from its i-th key on, as repr() writes them
ReprKeys(j, i) ==
  IF i > Len(j.k) THEN ""
  ELSE (IF i = 1 THEN "" ELSE ", ") \o ReprStr(j.k[i]) \o ": "
       \o PyRepr(j.v[j.k[i]]) \o ReprKeys(j, i + 1)

RECURSIVE JoinStr(_, _)
\* sep.join(strs) for a sequence of TLA+ strings
JoinStr(sep, strs) ==
  IF strs = <<>> THEN ""
  ELSE IF Len(strs) = 1 THEN strs[1]
  ELSE strs[1] \o sep \o JoinStr(sep, Tail(strs))

\* sep.join(x): x must be iterable and every element a str
PyJoin(sep, j) ==
  LET it == PyIter(j) IN
  IF IsExc(it) THEN it
  ELSE IF \E i \in 1..Len(it.v) : it.v[i].t # "str" THEN Exc("TypeError")
  ELSE JStr(JoinStr(sep, [i \in 1..Len(it.v) |-> it.v[i].v]))

\* [f(x) for x in xs] where f may raise: the list, or the first exception
Collect(vals) ==
  LET e == FirstExc(vals) IN IF IsExc(e) THEN e ELSE JList(vals)

RECURSIVE LStrip(_)
LStrip(s) == IF s # "" /\ SubSeq(s, 1, 1) \in Whitespace
             THEN LStrip(SubSeq(s, 2, Len(s))) ELSE s

RECURSIVE RStrip(_)
RStrip(s) == IF s # "" /\ SubSeq(s, Len(s), Len(s)) \in Whitespace
             THEN RStrip(SubSeq(s, 1, Len(s) - 1)) ELSE s

\* s.strip()
Strip(s) == RStrip(LStrip(s))

RECURSIVE SplitFrom(_, _, _)
SplitFrom(s, i, acc) ==
  IF i > Len(s) THEN <<acc>>
  ELSE IF SubSeq(s, i, i) = "," THEN <<acc>> \o SplitFrom(s, i + 1, "")
  ELSE SplitFrom(s, i + 1, acc \o SubSeq(s, i, i))

\* s.split(",")
Split(s) == SplitFrom(s, 1, "")

\* ---------------------------------------------------------------------
\* Comparison and list.sort
\* ---------------------------------------------------------------------

RECURSIVE StrLessFrom(_, _, _)
StrLessFrom(a, b, i) ==
  IF i > Len(b) THEN FALSE
  ELSE IF i > Len(a) THEN TRUE
  ELSE IF SubSeq(a, i, i) = SubSeq(b, i, i) THEN StrLessFrom(a, b, i + 1)
  ELSE Ord(SubSeq(a, i, i)) < Ord(SubSeq(b, i, i))

\* a < b on two str values: lexicographic by code point
StrLess(a, b) == StrLessFrom(a, b, 1)

\* An int or a bool as the int it counts as.
AsInt(j) == IF j.t = "bool" THEN (IF j.v THEN 1 ELSE 0) ELSE j.v

IsNumber(j) == j.t \in {"num", "bool"}

\* a == b
RECURSIVE PyEq(_, _)
PyEq(a, b) ==
  IF IsNumber(a) /\ IsNumber(b) THEN AsInt(a) = AsInt(b)
  ELSE IF a.t # b.t THEN FALSE
  ELSE CASE a.t = "list" ->
              Len(a.v) = Len(b.v) /\ \A i \in 1..Len(a.v) : PyEq(a.v[i], b.v[i])
         [] a.t = "obj" ->
              DOMAIN a.v = DOMAIN b.v /\ \A x \in DOMAIN a.v : PyEq(a.v[x], b.v[x])
         [] OTHER -> a = b

\* The first index from i on at which the lists a and b differ, or 0.
RECURSIVE FirstDifference(_, _, _)
FirstDifference(a, b, i) ==
  IF i > Len(a) \/ i > Len(b) THEN 0
  ELSE IF ~PyEq(a[i], b[i]) THEN i
  ELSE FirstDifference(a, b, i + 1)

\* a < b on two sort keys: "T", "F", or "E" when the comparison raises
\* TypeError.  Numbers compare by value, strs by code point, lists by their
\* first differing elements; nothing else has an order.
RECURSIVE KeyLess(_, _)
KeyLess(a, b) ==
  IF IsNumber(a) /\ IsNumber(b) THEN (IF AsInt(a) < AsInt(b) THEN "T" ELSE "F")
  ELSE IF a.t = "str" /\ b.t = "str" THEN (IF StrLess(a.v, b.v) THEN "T" ELSE "F")
  ELSE IF a.t = "list" /\ b.t = "list"
  THEN LET i == FirstDifference(a.v, b.v, 1) IN
       IF i = 0 THEN (IF Len(a.v) < Len(b.v) THEN "T" ELSE "F")
       ELSE KeyLess(a.v[i], b.v[i])
  ELSE "E"

\* count_run of list.sort: the length of the run that pairs starts with, from
\* its i-th element on; -1 when a comparison raises.  The run is descending
\* (each key less than the one before) or not.
RECURSIVE CountRun(_, _, _)
CountRun(pairs, i, descending) ==
  IF i > Len(pairs) THEN Len(pairs)
  ELSE LET k == KeyLess(pairs[i][1], pairs[i - 1][1]) IN
       IF k = "E" THEN -1
       ELSE IF (k = "T") # descending THEN i - 1
       ELSE CountRun(pairs, i + 1, descending)

Reverse(s) == [i \in 1..Len(s) |-> s[Len(s) + 1 - i]]

\* binarysort of list.sort: where pivot belongs in the sorted pairs[l..r-1],
\* behind every pair whose key is not greater; -1 when a comparison raises.
RECURSIVE InsertionPoint(_, _, _, _)
InsertionPoint(pairs, pivot, l, r) ==
  IF l >= r THEN l
  ELSE LET p == l + ((r - l) \div 2)
           k == KeyLess(pivot[1], pairs[p][1])
       IN IF k = "E" THEN -1
          ELSE IF k = "T" THEN InsertionPoint(pairs, pivot, l, p)
          ELSE InsertionPoint(pairs, pivot, p + 1, r)

\* binarysort from pairs[start] on, pairs[1..start-1] being sorted: the sorted
\* pairs, or <<>> when a comparison raises.
RECURSIVE InsertByKey(_, _)
InsertByKey(pairs, start) ==
  IF start > Len(pairs) THEN pairs
  ELSE LET l == InsertionPoint(pairs, pairs[start], 1, start) IN
       IF l = -1 THEN <<>>
       ELSE InsertByKey(SubSeq(pairs, 1, l - 1) \o <<pairs[start]>>
                          \o SubSeq(pairs, l, start - 1)
                          \o SubSeq(pairs, start + 1, Len(pairs)),
                        start + 1)

\* list.sort on two or more <<key, record>> pairs (fewer than 64): the first
\* run is counted and reversed when descending, the rest is inserted into it.
\* The sorted pairs, or <<>> when a comparison raises.
SortPairs(pairs) ==
  LET first == KeyLess(pairs[2][1], pairs[1][1]) IN
  IF first = "E" THEN <<>>
  ELSE LET n == CountRun(pairs, 3, first = "T") IN
       IF n = -1 THEN <<>>
       ELSE InsertByKey((IF first = "T" THEN Reverse(SubSeq(pairs, 1, n))
                         ELSE SubSeq(pairs, 1, n))
                          \o SubSeq(pairs, n + 1, Len(pairs)),
                        n + 1)

\* ---------------------------------------------------------------------
\* datetime.fromisoformat
\* ---------------------------------------------------------------------

\* s.replace("Z", "+00:00")
RECURSIVE ReplaceZ(_)
ReplaceZ(s) ==
  IF s = "" THEN ""
  ELSE (IF SubSeq(s, 1, 1) = "Z" THEN "+00:00" ELSE SubSeq(s, 1, 1))
       \o ReplaceZ(SubSeq(s, 2, Len(s)))

\* The UTF-8 bytes of s, which fromisoformat parses: every character above
\* 127 stands twice, for its two bytes.
RECURSIVE Utf8(_)
Utf8(s) ==
  IF s = "" THEN ""
  ELSE LET c == SubSeq(s, 1, 1) IN
       (IF Ord(c) >= 128 THEN c \o c ELSE c) \o Utf8(SubSeq(s, 2, Len(s)))

\* The byte at offset p (from 0); "" stands for the terminating NUL.
At(s, p) == IF p >= 0 /\ p < Len(s) THEN SubSeq(s, p + 1, p + 1) ELSE ""

IsDigit(c) == c \in {"0", "1", "2", "3", "4", "5", "6", "7", "8", "9"}

\* parse_digits: the number written by the n digits from offset p on, or -1
\* when one of them is not a digit.
RECURSIVE DigitsFrom(_, _, _, _)
DigitsFrom(s, p, n, acc) ==
  IF n = 0 THEN acc
  ELSE IF ~IsDigit(At(s, p)) THEN -1
  ELSE DigitsFrom(s, p + 1, n - 1, acc * 10 + (Ord(At(s, p)) - 48))

Digits(s, p, n) == DigitsFrom(s, p, n, 0)

\* The offset of the first byte from p on that is not a digit.
RECURSIVE SkipDigits(_, _)
SkipDigits(s, p) == IF IsDigit(At(s, p)) THEN SkipDigits(s, p + 1) ELSE p

IsLeap(y) == (y % 4 = 0 /\ y % 100 # 0) \/ y % 400 = 0

DaysInMonth(y, m) ==
  IF m = 2 THEN (IF IsLeap(y) THEN 29 ELSE 28)
  ELSE IF m \in {4, 6, 9, 11} THEN 30 ELSE 31

\* Days from 1970-01-01 to the civil date y-m-d.
DaysFromCivil(y, m, d) ==
  LET yy == IF m <= 2 THEN y - 1 ELSE y
      era == yy \div 400
      yoe == yy - era * 400
      mp == IF m > 2 THEN m - 3 ELSE m + 9
      doy == (153 * mp + 2) \div 5 + d - 1
      doe == yoe * 365 + yoe \div 4 - yoe \div 100 + doy
  IN era * 146097 + doe - 719468

\* date(9999, 12, 31) and date(1, 1, 1) in days from 1970-01-01
MaxDay == DaysFromCivil(9999, 12, 31)
MinDay == DaysFromCivil(1, 1, 1)

\* _find_isoformat_datetime_separator: the offset of the byte between the
\* date and the time, -1 when there is none.
FindSeparator(s) ==
  LET n == Len(s) IN
  IF n = 7 THEN 7
  ELSE IF At(s, 4) = "-"
  THEN IF At(s, 5) = "W"
       THEN IF n < 8 THEN -1
            ELSE IF n > 8 /\ At(s, 8) = "-"
            THEN IF n = 9 THEN -1
                 ELSE IF n > 10 /\ IsDigit(At(s, 10)) THEN 8
                 ELSE 10
            ELSE 8
       ELSE 10
  ELSE IF At(s, 4) = "W"
  THEN LET idx == IF 7 < n THEN Min(SkipDigits(s, 7), n) ELSE 7 IN
       IF idx < 9 THEN idx
       ELSE IF idx % 2 = 0 THEN 7
       ELSE 8
  ELSE 8

\* The weekday of 1 January of year y, Monday being 0.
FirstWeekday(y) == (DaysFromCivil(y, 1, 1) - MinDay + 7) % 7

\* iso_to_ymd: the day (from 1970-01-01) of day d of ISO week w of year y,
\* or the ValueError.
IsoWeekDay(y, w, d) ==
  LET fw == FirstWeekday(y)
      week1_monday == DaysFromCivil(y, 1, 1) - fw + (IF fw > 3 THEN 7 ELSE 0)
      has53 == fw = 3 \/ (fw = 2 /\ IsLeap(y))
  IN
  IF y < 1 THEN [ok |-> FALSE, day |-> 0]
  ELSE IF w <= 0 \/ w > 53 \/ (w = 53 /\ ~has53) THEN [ok |-> FALSE, day |-> 0]
  ELSE IF d <= 0 \/ d >= 8 THEN [ok |-> FALSE, day |-> 0]
  ELSE [ok |-> TRUE, day |-> week1_monday + (w - 1) * 7 + d - 1]

\* parse_isoformat_date on the first len bytes, and the range checks of the
\* date: [ok, day], day counted from 1970-01-01.
ParseDate(s, len) ==
  LET bad == [ok |-> FALSE, day |-> 0]
      year == Digits(s, 0, 4)
      uses_separator == At(s, 4) = "-"
      p == IF uses_separator THEN 5 ELSE 4
  IN
  IF year < 0 THEN bad
  ELSE IF At(s, p) = "W"
  THEN LET iso_week == Digits(s, p + 1, 2)
           q == p + 3
       IN
       IF iso_week < 0 THEN bad
       ELSE IF q < len
       THEN IF uses_separator /\ At(s, q) # "-" THEN bad
            ELSE LET iso_day == Digits(s, IF uses_separator THEN q + 1 ELSE q, 1)
                 IN IF iso_day < 0 THEN bad
                    ELSE LET r == IsoWeekDay(year, iso_week, iso_day) IN
                         IF r.ok /\ r.day >= MinDay /\ r.day <= MaxDay THEN r
                         ELSE bad
       ELSE LET r == IsoWeekDay(year, iso_week, 1) IN
            IF r.ok /\ r.day >= MinDay /\ r.day <= MaxDay THEN r ELSE bad
  ELSE LET month == Digits(s, p, 2)
           q == p + 2
       IN
       IF month < 0 THEN bad
       ELSE IF uses_separator /\ At(s, q) # "-" THEN bad
       ELSE LET day == Digits(s, IF uses_separator THEN q + 1 ELSE q, 2) IN
            IF day < 0 THEN bad
            ELSE IF year < 1 \/ month < 1 \/ month > 12 \/ day < 1 THEN bad
            ELSE IF day > DaysInMonth(year, month) THEN bad
            ELSE [ok |-> TRUE, day |-> DaysFromCivil(year, month, day)]

Pow10(n) == CASE n = 0 -> 1 [] n = 1 -> 10 [] n = 2 -> 100 [] n = 3 -> 1000
              [] n = 4 -> 10000 [] n = 5 -> 100000 [] OTHER -> 1000000

\* The results of parse_hh_mm_ss_ff: rv is 0 at the end of the string, 1 when
\* bytes are left, negative for a parse error.
TimeParsed(rv, vals, us) ==
  [rv |-> rv, hour |-> vals[1], minute |-> vals[2], second |-> vals[3],
   microsecond |-> us]

\* The fractional part of parse_hh_mm_ss_ff, from offset p to p_end.
ParseFraction(s, p, p_end, vals) ==
  LET to_parse == Min(p_end - p, 6)
      us == Digits(s, p, to_parse)
      q == SkipDigits(s, p + to_parse)
  IN
  IF us < 0 THEN TimeParsed(-3, <<0, 0, 0>>, 0)
  ELSE TimeParsed(IF At(s, q) # "" THEN 1 ELSE 0, vals, us * Pow10(6 - to_parse))

\* parse_hh_mm_ss_ff from its i-th field (0 the hour) at offset p on.
RECURSIVE ParseFields(_, _, _, _, _, _)
ParseFields(s, p, p_end, i, has_separator, vals) ==
  LET v == Digits(s, p, 2) IN
  IF v < 0 THEN TimeParsed(-3, <<0, 0, 0>>, 0)
  ELSE
    LET c == At(s, p + 2)
        q == p + 3
        sep == IF i = 0 THEN c = ":" ELSE has_separator
        vals2 == [vals EXCEPT ![i + 1] = v]
    IN
    IF q >= p_end THEN TimeParsed(IF c # "" THEN 1 ELSE 0, vals2, 0)
    ELSE IF sep /\ c = ":"
    THEN (IF i = 2 THEN ParseFraction(s, q, p_end, vals2)
          ELSE ParseFields(s, q, p_end, i + 1, sep, vals2))
    ELSE IF c = "." \/ c = "," THEN ParseFraction(s, q, p_end, vals2)
    ELSE IF ~sep
    THEN (IF i = 2 THEN ParseFraction(s, q - 1, p_end, vals2)
          ELSE ParseFields(s, q - 1, p_end, i + 1, sep, vals2))
    ELSE TimeParsed(-4, <<0, 0, 0>>, 0)

parse_hh_mm_ss_ff(s, p, p_end) == ParseFields(s, p, p_end, 0, TRUE, <<0, 0, 0>>)

\* The offset of the first "Z", "+" or "-" from p on, the length n of the
\* string when there is none.
RECURSIVE TzPos(_, _)
TzPos(s, p) ==
  IF At(s, p) \in {"Z", "+", "-"} THEN p
  ELSE IF p + 1 < Len(s) THEN TzPos(s, p + 1)
  ELSE p + 1

\* parse_isoformat_time from offset start on: [ok, aware, secs, us, tzoffset,
\* tzus], secs the second of the day, tzoffset and tzus the UTC offset in
\* seconds and microseconds.
ParseTime(s, start) ==
  LET bad == [ok |-> FALSE, aware |-> FALSE, hour |-> 0, minute |-> 0,
              second |-> 0, us |-> 0, tzoffset |-> 0, tzus |-> 0]
      tzinfo_pos == TzPos(s, start)
      t == parse_hh_mm_ss_ff(s, start, tzinfo_pos)
  IN
  IF t.rv < 0 THEN bad
  ELSE IF tzinfo_pos >= Len(s)
  THEN IF t.rv = 1 THEN bad
       ELSE [ok |-> TRUE, aware |-> FALSE, hour |-> t.hour, minute |-> t.minute,
             second |-> t.second, us |-> t.microsecond, tzoffset |-> 0, tzus |-> 0]
  ELSE IF At(s, tzinfo_pos) = "Z"
  THEN IF At(s, tzinfo_pos + 1) # "" THEN bad
       ELSE [ok |-> TRUE, aware |-> TRUE, hour |-> t.hour, minute |-> t.minute,
             second |-> t.second, us |-> t.microsecond, tzoffset |-> 0, tzus |-> 0]
  ELSE
    LET tzsign == IF At(s, tzinfo_pos) = "-" THEN -1 ELSE 1
        z == parse_hh_mm_ss_ff(s, tzinfo_pos + 1, Len(s))
    IN
    IF z.rv # 0 THEN bad
    ELSE [ok |-> TRUE, aware |-> TRUE, hour |-> t.hour, minute |-> t.minute,
          second |-> t.second, us |-> t.microsecond,
          tzoffset |-> tzsign * (z.hour * 3600 + z.minute * 60 + z.second),
          tzus |-> tzsign * z.microsecond]

\* datetime.fromisoformat(text): [ok, aware, day, secs, us, tzoffset, tzus].
\* ok = FALSE is the ValueError; otherwise the value is the local time of
\* second secs and microsecond us of the day `day` (counted from 1970-01-01)
\* and, when aware, at the UTC offset of tzoffset seconds and tzus
\* microseconds.
NoDateTime ==
  [ok |-> FALSE, aware |-> FALSE, day |-> 0, secs |-> 0, us |-> 0,
   tzoffset |-> 0, tzus |-> 0]

\* The datetime of the day `day` and of the parsed time t, after the range
\* checks of the time and of its UTC offset.
DateTimeAt(day, t) ==
  IF ~t.ok THEN NoDateTime
  ELSE IF t.hour > 23 \/ t.minute > 59 \/ t.second > 59 THEN NoDateTime
  ELSE IF t.tzoffset >= 86400 \/ t.tzoffset <= -86400 THEN NoDateTime
  ELSE [ok |-> TRUE, aware |-> t.aware, day |-> day,
        secs |-> t.hour * 3600 + t.minute * 60 + t.second, us |-> t.us,
        tzoffset |-> t.tzoffset,
        tzus |-> IF t.tzoffset = 0 THEN 0 ELSE t.tzus]

\* The datetime of the parsed date d and of the time that the bytes s hold
\* after the separator at offset separator_location, if any.
DateTimeFrom(s, separator_location, d) ==
  IF ~d.ok THEN NoDateTime
  ELSE IF Len(s) <= separator_location
  THEN [ok |-> TRUE, aware |-> FALSE, day |-> d.day, secs |-> 0, us |-> 0,
        tzoffset |-> 0, tzus |-> 0]
  ELSE DateTimeAt(d.day,
                  ParseTime(s, separator_location
                                 + (IF Ord(At(s, separator_location)) >= 128
                                    THEN 2 ELSE 1)))

\* The bytes s as a datetime, the date ending at offset separator_location.
FromIsoBytes(s, separator_location) ==
  IF Len(s) < 7 THEN NoDateTime
  ELSE IF separator_location < 0 THEN NoDateTime
  ELSE DateTimeFrom(s, separator_location, ParseDate(s, separator_location))

FromIsoFormat(text) == FromIsoBytes(Utf8(text), FindSeparator(Utf8(text)))

\* ---------------------------------------------------------------------
\* Minutes until arrival
\* ---------------------------------------------------------------------

\* expected_arrival - now as days, seconds and microseconds, the seconds in
\* 0..86399 and the microseconds in 0..999999; now is a clock reading in POSIX
\* seconds and microseconds.
TimeUntil(expected_arrival, now) ==
  LET us0 == expected_arrival.us - expected_arrival.tzus - now.us
      secs0 == expected_arrival.secs - expected_arrival.tzoffset
                 - (now.secs % 86400) + (us0 \div 1000000)
  IN [days |-> expected_arrival.day - (now.secs \div 86400) + (secs0 \div 86400),
      seconds |-> secs0 % 86400,
      microseconds |-> us0 % 1000000]

\* The difference is not less than d days and s seconds.
AtLeast(delta, d, s) ==
  delta.days > d \/ (delta.days = d /\ delta.seconds >= s)

\* total_seconds() / 60 is computed in floating point: how many microseconds
\* below a whole minute a difference of this size is rounded up to it (the
\* sizes are 2^34, 2^35, 2^36, 2^37 and 2^38 seconds).
RoundedUp(delta) ==
  IF AtLeast(delta, 3181457, 22144) THEN 30
  ELSE IF AtLeast(delta, 1590728, 54272) THEN 15
  ELSE IF AtLeast(delta, 795364, 27136) THEN 7
  ELSE IF AtLeast(delta, 397682, 13568) THEN 3
  ELSE IF AtLeast(delta, 198841, 6784) THEN 1
  ELSE 0

\* int(seconds / 60) replaced by rounding to the nearest minute
IntDiv60_round(secs) == IF secs >= 0 THEN (secs + 30) \div 60 ELSE -((30 - secs) \div 60)

\* int(seconds / 60): truncation towards zero
IntDiv60(secs) == IF secs >= 0 THEN secs \div 60 ELSE -((-secs) \div 60)

SixDigits(n) == SubSeq(ToString(1000000 + n), 2, 7)

\* f"{minutes} minutes" if minutes > 0 else "Due", for the minutes
\* int((expected_arrival - now).total_seconds() / 60) of a difference delta.
\* The minutes can exceed 2^31: they are counted in millions and units.
MinutesText(delta) ==
  IF delta.days < 0 THEN "Due"
  ELSE
    LET up == IF delta.seconds % 60 = 59
                 /\ delta.microseconds >= 1000000 - RoundedUp(delta)
              THEN 1 ELSE 0
        units == (delta.days \div 1000) * 440000 + (delta.days % 1000) * 1440
                   + IntDiv60(delta.seconds) + up
        millions == (delta.days \div 1000) + (units \div 1000000)
    IN
    IF millions = 0 /\ units = 0 THEN "Due"
    ELSE IF millions = 0 THEN ToString(units) \o " minutes"
    ELSE ToString(millions) \o SixDigits(units % 1000000) \o " minutes"

\* ---------------------------------------------------------------------
\* Formatters.  Each returns JStr(text) or the exception it raises.
\* ---------------------------------------------------------------------

\* format_line_status reading the severity with statuses[0][...] instead of
\* statuses[0].get(..., "Unknown")
format_line_status_index(line_data) ==
  LET name == PyGet(line_data, "name", JStr("Unknown Line"))
      statuses == PyGet(line_data, "lineStatuses", JList(<<>>))
      taken == ~IsExc(statuses) /\ Truthy(statuses)
      first == PyFirst(statuses)
      status == IF taken THEN PyItem(first, "statusSeverityDescription")
                ELSE JStr("Unknown")
      reason == IF taken THEN PyGet(first, "reason", JStr("")) ELSE JStr("")
      e == FirstExc(<<name, statuses, status, reason>>)
      formatted == "Line: " \o PyStr(name) \o "\nStatus: " \o PyStr(status)
  IN
  IF IsExc(e) THEN e
  ELSE JStr((IF Truthy(reason)
             THEN formatted \o "\nReason: " \o PyStr(reason)
             ELSE formatted) \o "\n---")

format_line_status(line_data) ==
  LET name == PyGet(line_data, "name", JStr("Unknown Line"))
      statuses == PyGet(line_data, "lineStatuses", JList(<<>>))
      taken == ~IsExc(statuses) /\ Truthy(statuses)
      first == PyFirst(statuses)
      status == IF taken
                THEN PyGet(first, "statusSeverityDescription", JStr("Unknown"))
                ELSE JStr("Unknown")
      reason == IF taken THEN PyGet(first, "reason", JStr("")) ELSE JStr("")
      e == FirstExc(<<name, statuses, status, reason>>)
      formatted == "Line: " \o PyStr(name) \o "\nStatus: " \o PyStr(status)
  IN
  IF IsExc(e) THEN e
  ELSE JStr((IF Truthy(reason)
             THEN formatted \o "\nReason: " \o PyStr(reason)
             ELSE formatted) \o "\n---")

\* The time_desc of format_arrival: the try block and its bare except, now
\* being what datetime.now() reads.  A value without replace, a string that
\* fromisoformat rejects and a time without UTC offset (which cannot be
\* subtracted from now) end in the except.
UntilText(expected_arrival, now) ==
  IF ~expected_arrival.ok \/ ~expected_arrival.aware THEN "Time unknown"
  ELSE MinutesText(TimeUntil(expected_arrival, now))

TimeDesc(arrival, now) ==
  LET raw == PyGet(arrival, "expectedArrival", JStr("")) IN
  IF raw.t # "str" THEN "Time unknown"
  ELSE UntilText(FromIsoFormat(ReplaceZ(raw.v)), now)

format_arrival(arrival, now) ==
  LET line == PyGet(arrival, "lineName", JStr("Unknown Line"))
      destination == PyGet(arrival, "destinationName", JStr("Unknown Destination"))
      platform == PyGet(arrival, "platformName", JStr("Unknown Platform"))
      e == FirstExc(<<line, destination, platform>>)
  IN
  IF IsExc(e) THEN e
  ELSE JStr("Line: " \o PyStr(line) \o "\nPlatform: " \o PyStr(platform)
            \o "\nDestination: " \o PyStr(destination)
            \o "\nArrival: " \o TimeDesc(arrival, now) \o "\n---")

\* The for loop of format_bike_point from element i on:
\* JList(<<bikes_available, docks_available>>) or the exception raised.
RECURSIVE BikeScan(_, _, _, _)
BikeScan(props, i, bikes_available, docks_available) ==
  IF i > Len(props) THEN JList(<<bikes_available, docks_available>>)
  ELSE
    LET key == PyGet(props[i], "key", JNull) IN
    IF IsExc(key) THEN key
    ELSE IF key = JStr("NbBikes")
    THEN BikeScan(props, i + 1, PyGet(props[i], "value", JStr("Unknown")),
                  docks_available)
    ELSE IF key = JStr("NbEmptyDocks")
    THEN BikeScan(props, i + 1, bikes_available,
                  PyGet(props[i], "value", JStr("Unknown")))
    ELSE BikeScan(props, i + 1, bikes_available, docks_available)

format_bike_point(point) ==
  LET name == PyGet(point, "commonName", JStr("Unknown Location"))
      bikes == PyIter(PyGet(point, "additionalProperties", JList(<<>>)))
      scan == IF IsExc(bikes) THEN bikes
              ELSE BikeScan(bikes.v, 1, JStr("Unknown"), JStr("Unknown"))
      e == FirstExc(<<name, scan>>)
  IN
  IF IsExc(e) THEN e
  ELSE JStr("Location: " \o PyStr(name)
            \o "\nBikes Available: " \o PyStr(scan.v[1])
            \o "\nEmpty Docks: " \o PyStr(scan.v[2]) \o "\n---")

\* The loops of format_station_info over additionalProperties from element
\* i on: the keys of the entries of one category, or the exception raised.
RECURSIVE CategoryKeys(_, _, _)
CategoryKeys(props, i, category) ==
  IF i > Len(props) THEN JList(<<>>)
  ELSE
    LET cat == PyGet(props[i], "category", JNull)
        rest == CategoryKeys(props, i + 1, category)
    IN
    IF IsExc(cat) THEN cat
    ELSE IF IsExc(rest) THEN rest
    ELSE IF cat = JStr(category)
    THEN JList(<<PyGet(props[i], "key", JStr(""))>> \o rest.v)
    ELSE rest

\* [line.get("name", "") for line in x.get("lines", [])]
LineNames(rec) ==
  LET it == PyIter(PyGet(rec, "lines", JList(<<>>))) IN
  IF IsExc(it) THEN it
  ELSE Collect([i \in 1..Len(it.v) |-> PyGet(it.v[i], "name", JStr(""))])

\* ", ".join(str(zone) for zone in x.get("zones", []))
ZoneText(rec) ==
  LET it == PyIter(PyGet(rec, "zones", JList(<<>>))) IN
  IF IsExc(it) THEN it
  ELSE JStr(JoinStr(", ", [i \in 1..Len(it.v) |-> PyStr(it.v[i])]))

format_station_info(station_data) ==
  LET name == PyGet(station_data, "commonName", JStr("Unknown Station"))
      modes == PyJoin(", ", PyGet(station_data, "modes", JList(<<>>)))
      zones == ZoneText(station_data)
      props == PyIter(PyGet(station_data, "additionalProperties", JList(<<>>)))
      facilities == IF IsExc(props) THEN props
                    ELSE CategoryKeys(props.v, 1, "Facility")
      lines == LineNames(station_data)
      accessibility == IF IsExc(props) THEN props
                       ELSE CategoryKeys(props.v, 1, "Accessibility")
      linesText == PyJoin(", ", lines)
      e1 == FirstExc(<<name, modes, zones, facilities, lines, accessibility,
                       linesText>>)
      facText == IF ~IsExc(e1) /\ Truthy(facilities)
                 THEN PyJoin(", ", facilities) ELSE JStr("")
      accText == IF ~IsExc(e1) /\ ~IsExc(facText) /\ Truthy(accessibility)
                 THEN PyJoin(", ", accessibility) ELSE JStr("")
      e == FirstExc(<<e1, facText, accText>>)
  IN
  IF IsExc(e) THEN e
  ELSE JStr("Station: " \o PyStr(name)
            \o "\nTransport Modes: " \o modes.v
            \o "\nZones: " \o zones.v
            \o "\nLines: " \o linesText.v \o "\n"
            \o (IF Truthy(facilities)
                THEN "Facilities: " \o facText.v \o "\n" ELSE "")
            \o (IF Truthy(accessibility)
                THEN "Accessibility: " \o accText.v \o "\n" ELSE "")
            \o "---")

\* f"{x:.0f}" for an int x; a str raises ValueError, any other type TypeError
FormatF0(j) ==
  IF IsExc(j) THEN j
  ELSE CASE j.t = "num" -> JStr(ToString(j.v))
         [] j.t = "bool" -> JStr(IF j.v THEN "1" ELSE "0")
         [] j.t = "str" -> Exc("ValueError")
         [] OTHER -> Exc("TypeError")

format_nearby_stop(stop) ==
  LET name == PyGet(stop, "commonName", JStr("Unknown Location"))
      distance == PyGet(stop, "distance", JNum(0))
      modes == PyJoin(", ", PyGet(stop, "modes", JList(<<>>)))
      lines == LineNames(stop)
      distText == FormatF0(distance)
      linesText == PyJoin(", ", lines)
      e == FirstExc(<<name, distance, modes, lines, distText, linesText>>)
  IN
  IF IsExc(e) THEN e
  ELSE JStr("Stop: " \o PyStr(name)
            \o "\nDistance: " \o distText.v \o "m"
            \o "\nModes: " \o modes.v
            \o "\nLines: " \o linesText.v \o "\n---")

\* ---------------------------------------------------------------------
\* State
\* ---------------------------------------------------------------------

VARIABLES
  pc,         \* "idle", "await" (suspended in make_tfl_request) or "done"
  op,         \* the tool name or resource uri of the running invocation
  arguments,  \* the arguments of the running invocation
  step,       \* which upstream call the handler is suspended in
  local,      \* the handler's locals: text (the stripped string argument),
              \* lat, lon, radius
  calls,      \* the upstream requests issued by the running invocation
  http,       \* what happened to the last upstream request
  ret,        \* what make_tfl_request returned for it, or the exception
  formatted,  \* the handler's list of formatted blocks
  result,     \* how the invocation ended: returned text or raised exception
  now,        \* the wall clock: POSIX seconds and microseconds
  readings,   \* what the clock read at each format_arrival call of the
              \* running invocation, in order
  history     \* the direct calls of a formatter on one record, in order:
              \* what each returned and what the clock read at the call

vars == <<pc, op, arguments, step, local, calls, http, ret, formatted, result,
          now, readings, history>>

TFL_API_BASE == "https://api.tfl.gov.uk"
APP_KEY == JStr("app-key")
APP_ID == JStr("app-id")

ToolNames == {"get-line-status", "get-arrivals", "search-bike-points",
              "get-station-info", "find-stops-by-radius"}

ResourceUris == {"tfl://lines", "tfl://stations", "tfl://modes"}

NoResult == [kind |-> "none", exc |-> "", text |-> ""]
Returned(text) == [kind |-> "text", exc |-> "", text |-> text]
Raised(e, msg) == [kind |-> "raise", exc |-> e, text |-> msg]

NoHttp == [kind |-> "none", status |-> 0, body |-> JNull]
NoLocal == [text |-> "", lat |-> JNull, lon |-> JNull, radius |-> JNull]

\* params = None
NoParams == JNull

\* d.update(p) on two dicts: a key of p that d has keeps its place and takes
\* the value of p, the other keys of p follow in their order
PyUpdate(d, p) ==
  LET added == SelectSeq(p.k, LAMBDA x : x \notin DOMAIN d.v) IN
  [t |-> "obj", k |-> d.k \o added,
   v |-> [x \in DOMAIN d.v \cup DOMAIN p.v |->
            IF x \in DOMAIN p.v THEN p.v[x] ELSE d.v[x]]]

\* default_params of make_tfl_request, after default_params.update(params)
\* when params is given
MergeParams(params) ==
  LET default_params == JDict(<<"app_key", "app_id">>, <<APP_KEY, APP_ID>>) IN
  IF Truthy(params) THEN PyUpdate(default_params, params) ELSE default_params

\* The request make_tfl_request hands to client.get
Request(endpoint, params) ==
  [url |-> TFL_API_BASE \o "/" \o endpoint, endpoint |-> endpoint,
   params |-> MergeParams(params)]

\* response.raise_for_status() raises unless the status is 2xx
IsSuccess(status) == status >= 200 /\ status <= 299

\* make_tfl_request without response.raise_for_status()
make_tfl_request_noStatusCheck(outcome) ==
  IF outcome.kind # "response" THEN JNull
  ELSE IF IsExc(outcome.body) THEN JNull
  ELSE outcome.body

\* make_tfl_request from the completion of client.get on: outcome.kind is
\* "transport_error", "timeout" or "response"; the body of a response is the
\* parsed JSON, or "exc" when response.json() cannot parse it.
make_tfl_request(outcome) ==
  IF outcome.kind # "response" THEN JNull
  ELSE IF ~IsSuccess(outcome.status) THEN JNull
  ELSE IF IsExc(outcome.body) THEN JNull
  ELSE outcome.body

\* ---------------------------------------------------------------------
\* Handlers.  A handler runs from its start, or from the return of the
\* make_tfl_request it is suspended in, to its next make_tfl_request or to
\* its end.  Each piece is an operator giving what the handler does next:
\*   done = TRUE: it ends with `result` (returned text or raised exception);
\*   done = FALSE: it issues `request` and suspends in `step`;
\*   reads: how many times it has called datetime.now().
\* ---------------------------------------------------------------------

NoRequest == Request("", NoParams)

Finish(res, blocks, loc) ==
  [done |-> TRUE, result |-> res, formatted |-> blocks, step |-> "none",
   request |-> NoRequest, local |-> loc, reads |-> 0]

Await(st, req, loc) ==
  [done |-> FALSE, result |-> NoResult, formatted |-> <<>>, step |-> st,
   request |-> req, local |-> loc, reads |-> 0]

\* An exception that is not caught in the handler ends it.
Propagate(e, loc) == Finish(Raised(e.v, ""), <<>>, loc)

\* arguments.get(key, "").strip()
StringArg(args, key) ==
  LET v == PyGet(args, key, JStr("")) IN
  IF IsExc(v) THEN v
  ELSE IF v.t # "str" THEN Exc("AttributeError")
  ELSE JStr(Strip(v.v))

\* "\n".join(blocks) after a header
TextOf(header, blocks) == header \o JoinStr("\n", blocks)

\* [format(x) for x in items]: ends the handler with the text, or with the
\* exception a formatter or the iteration raises.
FormatAll(header, items, blocks, loc) ==
  IF IsExc(items) THEN Propagate(items, loc)
  ELSE
    LET all == Collect(blocks) IN
    IF IsExc(all) THEN Propagate(all, loc)
    ELSE
      LET texts == [i \in 1..Len(all.v) |-> all.v[i].v] IN
      Finish(Returned(TextOf(header, texts)), texts, loc)

\* --- get-line-status ---------------------------------------------------

LineStatusStart(args) ==
  LET lines == StringArg(args, "lines") IN
  IF IsExc(lines) THEN Propagate(lines, NoLocal)
  ELSE IF lines.v = ""
  THEN Finish(Raised("ValueError", "Lines parameter must not be empty"),
              <<>>, NoLocal)
  ELSE
    LET parts == Split(lines.v)
        lines_list == [i \in 1..Len(parts) |-> Strip(parts[i])]
    IN
    Await("line_status",
          Request("Line/" \o JoinStr(",", lines_list) \o "/Status", NoParams),
          [NoLocal EXCEPT !.text = lines.v])

LineStatusReply(statuses_data, loc) ==
  IF ~Truthy(statuses_data)
  THEN Finish(Returned("Failed to retrieve line statuses"), <<>>, loc)
  ELSE
    LET it == PyIter(statuses_data) IN
    FormatAll("Current Line Statuses:\n\n", it,
              IF IsExc(it) THEN <<>>
              ELSE [i \in 1..Len(it.v) |-> format_line_status(it.v[i])],
              loc)

\* --- resolve-by-search, shared by get-arrivals and get-station-info ------

SearchRequest(station) ==
  Request("StopPoint/Search/" \o station,
          JDict(<<"modes">>, <<JStr("tube,overground,dlr")>>))

\* search_result["matches"][-1]["id"], the last match instead of the first
FirstMatchId_last(search_result) ==
  LET matches == PyItem(search_result, "matches") IN
  IF ~IsExc(matches) /\ matches.t = "list" /\ matches.v # <<>>
  THEN PyItem(matches.v[Len(matches.v)], "id")
  ELSE PyItem(PyFirst(matches), "id")

\* search_result["matches"][0]["id"]
FirstMatchId(search_result) ==
  PyItem(PyFirst(PyItem(search_result, "matches")), "id")

\* The handler from the return of the search to the detail request;
\* detail is "/Arrivals" for get-arrivals and "" for get-station-info.
SearchReply(search_result, loc, nextStep, detail) ==
  IF ~Truthy(search_result)
  THEN Finish(Returned("Could not find station: " \o loc.text), <<>>, loc)
  ELSE
    LET matches == PyGet(search_result, "matches", JNull) IN
    IF IsExc(matches) THEN Propagate(matches, loc)
    ELSE IF ~Truthy(matches)
    THEN Finish(Returned("Could not find station: " \o loc.text), <<>>, loc)
    ELSE
      LET station_id == FirstMatchId(search_result) IN
      IF IsExc(station_id) THEN Propagate(station_id, loc)
      ELSE Await(nextStep,
                 Request("StopPoint/" \o PyStr(station_id) \o detail, NoParams),
                 loc)

StationStart(args, firstStep) ==
  LET station == StringArg(args, "station") IN
  IF IsExc(station) THEN Propagate(station, NoLocal)
  ELSE IF station.v = ""
  THEN Finish(Raised("ValueError", "Station parameter must not be empty"),
              <<>>, NoLocal)
  ELSE Await(firstStep, SearchRequest(station.v),
             [NoLocal EXCEPT !.text = station.v])

\* --- get-arrivals -------------------------------------------------------

\* arrivals_data.sort(key=lambda x: x.get("expectedArrival", "")): the sorted
\* list, or the exception raised.  Only a list has sort; the keys of all
\* elements are computed first; a list of fewer than two elements is not
\* compared.
SortArrivals(arrivals_data) ==
  IF arrivals_data.t # "list" THEN Exc("AttributeError")
  ELSE
    LET n == Len(arrivals_data.v)
        keys == Collect([i \in 1..n |->
                  PyGet(arrivals_data.v[i], "expectedArrival", JStr(""))])
    IN
    IF IsExc(keys) THEN keys
    ELSE IF n < 2 THEN arrivals_data
    ELSE
      LET sorted == SortPairs([i \in 1..n |-> <<keys.v[i], arrivals_data.v[i]>>])
      IN IF sorted = <<>> THEN Exc("TypeError")
         ELSE JList([i \in 1..n |-> sorted[i][2]])

ArrivalsCap == 10

\* format_arrival reads the clock when fromisoformat has accepted the
\* expectedArrival of the arrival.
ReadsClock(arrival) ==
  LET raw == PyGet(arrival, "expectedArrival", JStr("")) IN
  raw.t = "str" /\ FromIsoFormat(ReplaceZ(raw.v)).ok

\* How many of the first i calls of format_arrival read the clock, reading[k]
\* telling whether the k-th call does.
ReadsAmong(reading, i) == Cardinality({j \in 1..i : reading[j]})

\* [format_arrival(arrival) for arrival in shown] and the return of the text.
\* clocks[k] is what the k-th datetime.now() of the invocation reads; reads
\* counts the readings.
FormatArrivals(shown, reading, loc, clocks) ==
  [FormatAll("Next arrivals at " \o loc.text \o ":\n\n", shown,
             [i \in 1..Len(shown.v) |->
                format_arrival(shown.v[i], clocks[ReadsAmong(reading, i - 1) + 1])],
             loc)
     EXCEPT !.reads = ReadsAmong(reading, Len(shown.v))]

\* (Every element of a list that was sorted has get.)
ShowArrivals(shown, loc, clocks) ==
  IF IsExc(shown) THEN Propagate(shown, loc)
  ELSE FormatArrivals(shown, [i \in 1..Len(shown.v) |-> ReadsClock(shown.v[i])],
                      loc, clocks)

ArrivalsReply(arrivals_data, loc, clocks) ==
  IF ~Truthy(arrivals_data)
  THEN Finish(Returned("Failed to retrieve arrivals for " \o loc.text), <<>>, loc)
  ELSE ShowArrivals(PySlice(SortArrivals(arrivals_data), ArrivalsCap), loc, clocks)

\* --- search-bike-points --------------------------------------------------

BikeCap == 5

BikeStart(args) ==
  LET location == StringArg(args, "location") IN
  IF IsExc(location) THEN Propagate(location, NoLocal)
  ELSE IF location.v = ""
  THEN Finish(Raised("ValueError", "Location parameter must not be empty"),
              <<>>, NoLocal)
  ELSE Await("bike_search",
             Request("BikePoint/Search",
                     JDict(<<"query">>, <<JStr(location.v)>>)),
             [NoLocal EXCEPT !.text = location.v])

BikeReply(search_result, loc) ==
  IF ~Truthy(search_result)
  THEN Finish(Returned("Failed to search for bike points near " \o loc.text),
              <<>>, loc)
  ELSE
    LET it == PyIter(PySlice(search_result, BikeCap)) IN
    FormatAll("Bike points near " \o loc.text \o ":\n\n", it,
              IF IsExc(it) THEN <<>>
              ELSE [i \in 1..Len(it.v) |-> format_bike_point(it.v[i])],
              loc)

\* --- get-station-info ----------------------------------------------------

\* The detail step without the check of an absent result.
StationDetailReply_noCheck(station_data, loc) ==
  LET block == format_station_info(station_data) IN
  IF IsExc(block) THEN Propagate(block, loc)
  ELSE Finish(Returned(block.v), <<block.v>>, loc)

StationDetailReply(station_data, loc) ==
  IF ~Truthy(station_data)
  THEN Finish(Returned("Failed to retrieve information for " \o loc.text),
              <<>>, loc)
  ELSE
    LET block == format_station_info(station_data) IN
    IF IsExc(block) THEN Propagate(block, loc)
    ELSE Finish(Returned(block.v), <<block.v>>, loc)

\* --- find-stops-by-radius --------------------------------------------------

RadiusCap == 1000
StopsCap == 10

\* min(x, 1000): an int compares with 1000 (a bool is an int below 1000 and is
\* returned as it is), any other type raises TypeError
PyMin(j, m) ==
  IF IsExc(j) THEN j
  ELSE IF j.t = "num" THEN JNum(Min(j.v, m))
  ELSE IF j.t = "bool" THEN j
  ELSE Exc("TypeError")

\* "k" in x: a key of a dict, an element of a list, a substring of a str;
\* None, a number and a bool are not iterable.
PyIn(k, j) ==
  CASE j.t = "obj" -> JBool(Has(j, k))
    [] j.t = "list" -> JBool(\E i \in 1..Len(j.v) : PyEq(j.v[i], JStr(k)))
    [] j.t = "str" -> JBool(\/ k = ""
                            \/ \E i \in 1..Len(j.v) :
                                 i + Len(k) - 1 <= Len(j.v)
                                 /\ SubSeq(j.v, i, i + Len(k) - 1) = k)
    [] OTHER -> Exc("TypeError")

\* The radius default of the specification's table: zero counts as absent.
RadiusArg_zeroDefault(args) ==
  LET r == PyGet(args, "radius", JNum(RadiusCap)) IN
  PyMin(IF r = JNum(0) THEN JNum(RadiusCap) ELSE r, RadiusCap)

\* The radius without the cap.
RadiusArg_noCap(args) == PyGet(args, "radius", JNum(RadiusCap))

\* min(arguments.get("radius", 1000), 1000)
RadiusArg(args) == PyMin(PyGet(args, "radius", JNum(RadiusCap)), RadiusCap)

RadiusStart(args) ==
  LET lat == PyGet(args, "lat", JNull)
      lon == PyGet(args, "lon", JNull)
      radius == RadiusArg(args)
      loc == [NoLocal EXCEPT !.lat = lat, !.lon = lon, !.radius = radius]
  IN
  IF IsExc(radius) THEN Propagate(radius, NoLocal)
  ELSE IF lat.t = "null" \/ lon.t = "null" \/ radius.t = "null"
  THEN Finish(Raised("ValueError", "Missing required parameters"), <<>>, NoLocal)
  ELSE Await("radius",
             Request("StopPoint",
                     JDict(<<"lat", "lon", "radius", "modes">>,
                           <<lat, lon, radius, JStr("tube,overground,dlr")>>)),
             loc)

Within(loc) ==
  " within " \o PyStr(loc.radius) \o "m of " \o PyStr(loc.lat) \o ", "
  \o PyStr(loc.lon)

RadiusReply(stops_data, loc) ==
  IF ~Truthy(stops_data)
  THEN Finish(Returned("Failed to find stops" \o Within(loc)), <<>>, loc)
  ELSE IF IsExc(PyIn("stopPoints", stops_data))
  THEN Propagate(PyIn("stopPoints", stops_data), loc)
  ELSE IF ~PyIn("stopPoints", stops_data).v
  THEN Finish(Returned("Failed to find stops" \o Within(loc)), <<>>, loc)
  ELSE
    LET stops == PyItem(stops_data, "stopPoints") IN
    IF IsExc(stops) THEN Propagate(stops, loc)
    ELSE IF ~Truthy(stops)
    THEN Finish(Returned("No stops found" \o Within(loc)), <<>>, loc)
    ELSE
      LET it == PyIter(PySlice(stops, StopsCap)) IN
      FormatAll("Stops" \o Within(loc) \o ":\n\n", it,
                IF IsExc(it) THEN <<>>
                ELSE [i \in 1..Len(it.v) |-> format_nearby_stop(it.v[i])],
                loc)

\* --- resources ------------------------------------------------------------

StationsCap == 50

\* len(x)
PyLen(j) ==
  IF IsExc(j) THEN j
  ELSE CASE j.t = "list" -> JNum(Len(j.v))
         [] j.t = "str" -> JNum(Len(j.v))
         [] j.t = "obj" -> JNum(Len(j.k))
         [] OTHER -> Exc("TypeError")

LineBlock(line) ==
  LET name == PyGet(line, "name", JNull)
      id == PyGet(line, "id", JNull)
      mode == PyGet(line, "modeName", JNull)
      routes == PyLen(PyGet(line, "routeSections", JList(<<>>)))
      e == FirstExc(<<name, id, mode, routes>>)
  IN
  IF IsExc(e) THEN e
  ELSE JStr("Name: " \o PyStr(name) \o "\nID: " \o PyStr(id)
            \o "\nMode: " \o PyStr(mode)
            \o "\nRoutes: " \o PyStr(routes) \o "\n---")

StationBlock(station) ==
  LET zones == ZoneText(station)
      lines == LineNames(station)
      name == PyGet(station, "commonName", JNull)
      id == PyGet(station, "id", JNull)
      modes == PyJoin(", ", PyGet(station, "modes", JList(<<>>)))
      linesText == PyJoin(", ", lines)
      e == FirstExc(<<zones, lines, name, id, modes, linesText>>)
  IN
  IF IsExc(e) THEN e
  ELSE JStr("Name: " \o PyStr(name) \o "\nID: " \o PyStr(id)
            \o "\nModes: " \o modes.v \o "\nZones: " \o zones.v
            \o "\nLines: " \o linesText.v \o "\n---")

YesNo(j) == IF Truthy(j) THEN "Yes" ELSE "No"

ModeBlock(mode) ==
  LET name == PyGet(mode, "modeName", JNull)
      description == PyGet(mode, "description", JStr("No description available"))
      tfl == PyGet(mode, "isTflService", JNull)
      scheduled == PyGet(mode, "isScheduledService", JNull)
      e == FirstExc(<<name, description, tfl, scheduled>>)
  IN
  IF IsExc(e) THEN e
  ELSE JStr("Name: " \o PyStr(name) \o "\nDescription: " \o PyStr(description)
            \o "\nIs TfL Service: " \o YesNo(tfl)
            \o "\nIs Scheduled Service: " \o YesNo(scheduled) \o "\n---")

LinesResourceReply(lines_data) ==
  IF ~Truthy(lines_data)
  THEN Finish(Returned("Failed to retrieve lines data"), <<>>, NoLocal)
  ELSE
    LET it == PyIter(lines_data) IN
    FormatAll("TfL Lines:\n\n", it,
              IF IsExc(it) THEN <<>>
              ELSE [i \in 1..Len(it.v) |-> LineBlock(it.v[i])],
              NoLocal)

StationsResourceReply(stations_data) ==
  IF ~Truthy(stations_data)
  THEN Finish(Returned("Failed to retrieve stations data"), <<>>, NoLocal)
  ELSE
    LET stopPoints == PyGet(stations_data, "stopPoints", JNull) IN
    IF IsExc(stopPoints) THEN Propagate(stopPoints, NoLocal)
    ELSE IF ~Truthy(stopPoints)
    THEN Finish(Returned("Failed to retrieve stations data"), <<>>, NoLocal)
    ELSE
      LET it == PyIter(PySlice(stopPoints, StationsCap)) IN
      FormatAll("TfL Stations (first 50):\n\n", it,
                IF IsExc(it) THEN <<>>
                ELSE [i \in 1..Len(it.v) |-> StationBlock(it.v[i])],
                NoLocal)

ModesResourceReply(modes_data) ==
  IF ~Truthy(modes_data)
  THEN Finish(Returned("Failed to retrieve transport modes data"), <<>>, NoLocal)
  ELSE
    LET it == PyIter(modes_data) IN
    FormatAll("TfL Transport Modes:\n\n", it,
              IF IsExc(it) THEN <<>>
              ELSE [i \in 1..Len(it.v) |-> ModeBlock(it.v[i])],
              NoLocal)

\* --- dispatch --------------------------------------------------------------

\* handle_call_tool up to its first make_tfl_request
handle_call_tool(name, args) ==
  IF ~Truthy(args)
  THEN Finish(Raised("ValueError", "Missing arguments"), <<>>, NoLocal)
  ELSE CASE name = "get-line-status" -> LineStatusStart(args)
         [] name = "get-arrivals" -> StationStart(args, "arrivals_search")
         [] name = "search-bike-points" -> BikeStart(args)
         [] name = "get-station-info" -> StationStart(args, "station_search")
         [] name = "find-stops-by-radius" -> RadiusStart(args)
         [] OTHER -> Finish(Raised("ValueError", "Unknown tool: " \o name),
                            <<>>, NoLocal)

\* handle_read_resource up to its make_tfl_request
handle_read_resource(uri) ==
  CASE uri = "tfl://lines" ->
         Await("res_lines", Request("Line/Mode/tube,overground,dlr", NoParams),
               NoLocal)
    [] uri = "tfl://stations" ->
         Await("res_stations",
               Request("StopPoint/Mode/tube,overground,dlr", NoParams), NoLocal)
    [] uri = "tfl://modes" ->
         Await("res_modes", Request("Mode", NoParams), NoLocal)
    [] OTHER -> Finish(Raised("ValueError", "Unknown resource URI: " \o uri),
                       <<>>, NoLocal)

\* The handler from the return value of the make_tfl_request of step st on.
Resume(st, value, loc, clocks) ==
  CASE st = "line_status" -> LineStatusReply(value, loc)
    [] st = "arrivals_search" ->
         SearchReply(value, loc, "arrivals_detail", "/Arrivals")
    [] st = "arrivals_detail" -> ArrivalsReply(value, loc, clocks)
    [] st = "bike_search" -> BikeReply(value, loc)
    [] st = "station_search" -> SearchReply(value, loc, "station_detail", "")
    [] st = "station_detail" -> StationDetailReply(value, loc)
    [] st = "radius" -> RadiusReply(value, loc)
    [] st = "res_lines" -> LinesResourceReply(value)
    [] st = "res_stations" -> StationsResourceReply(value)
    [] st = "res_modes" -> ModesResourceReply(value)

\* ---------------------------------------------------------------------
\* Inputs: the invocations of the host and the answers of the upstream
\* ---------------------------------------------------------------------

MaxLines == 3       \* longest list of lines the upstream returns
MaxArrivals == 11   \* longest list of arrivals
MaxPoints == 7      \* longest list of bike points
MaxStops == 12      \* longest list of stop points of a radius search
MaxStations == 52   \* longest list of stop points of the stations view
MaxTicks == 1       \* clock ticks of 30.5 seconds
MaxFormatCalls == 2 \* direct calls of a formatter on one record
MaxSplit == 2       \* latest clock reading of an invocation before a tick

\* 2024-01-01T10:03:29.5Z
NowStart ==
  [secs |-> DaysFromCivil(2024, 1, 1) * 86400 + 10 * 3600 + 3 * 60 + 29,
   us |-> 500000]
TickSeconds == 30
TickMicros == 500000

\* The clock one tick after it read `clock`.
Later(clock) ==
  [secs |-> clock.secs + TickSeconds + ((clock.us + TickMicros) \div 1000000),
   us |-> (clock.us + TickMicros) % 1000000]

\* The ticks between NowStart and `clock`.
Ticks(clock) == (clock.secs - NowStart.secs) \div TickSeconds

NoArgs == [lines |-> JMissing, station |-> JMissing, location |-> JMissing,
           lat |-> JMissing, lon |-> JMissing, radius |-> JMissing,
           extra |-> JMissing]

StringValues == {JMissing, JNull, JNum(7), JStr(""), JStr("   "), JStr(" \t\n"),
                 JStr("\f"), JStr("victoria"), JStr(" victoria , northern ")}

ExtraValues == {JMissing, JStr("x")}

LatValues == {JMissing, JNull, JNum(0), JNum(51)}
LonValues == {JMissing, JNull, JNum(-1)}
RadiusValues == {JMissing, JNull, JStr("500"), JNum(-5), JNum(0), JNum(1),
                 JNum(999), JNum(1000), JNum(1001), JNum(2000), JNum(5000)}

StringKey(name) ==
  CASE name = "get-line-status" -> "lines"
    [] name = "search-bike-points" -> "location"
    [] OTHER -> "station"

\* The arguments a host may send with a tool name: None, or a dict.
ArgumentsOf(name) ==
  {JNull}
  \cup (IF name = "find-stops-by-radius"
        THEN {JObj([NoArgs EXCEPT !.lat = la, !.lon = lo, !.radius = r]) :
                la \in LatValues, lo \in LonValues, r \in RadiusValues}
        ELSE {JObj([NoArgs EXCEPT ![StringKey(name)] = v, !.extra = x]) :
                v \in StringValues, x \in ExtraValues})

TwoDigits(i) == IF i < 10 THEN "0" \o ToString(i) ELSE ToString(i)

Obj0 == [name |-> JMissing]
EmptyObj == JObj(Obj0)

\* --- lines -------------------------------------------------------------

GoodService == JObj([statusSeverityDescription |-> JStr("Good Service")])
Delays == JObj([statusSeverityDescription |-> JStr("Minor Delays"),
                reason |-> JStr("Signal failure")])

LineRecord(i) ==
  CASE i = 1 -> JObj([name |-> JStr("Victoria"), id |-> JStr("victoria"),
                      modeName |-> JStr("tube"),
                      lineStatuses |-> JList(<<GoodService>>),
                      routeSections |-> JList(<<EmptyObj, EmptyObj>>)])
    [] i = 2 -> JObj([name |-> JStr("Northern"), id |-> JStr("northern"),
                      modeName |-> JStr("tube"),
                      lineStatuses |-> JList(<<Delays, GoodService>>)])
    [] OTHER -> JObj([id |-> JStr("line-" \o ToString(i)),
                      lineStatuses |-> JList(<<>>)])

LineList(n) == JList([i \in 1..n |-> LineRecord(i)])

LineBodies ==
  {LineList(n) : n \in 0..MaxLines}
  \cup {JList(<<EmptyObj>>), JList(<<JNull>>), JNum(5),
        JObj([message |-> JStr("Line not found")]),
        JList(<<JObj([name |-> JNull, lineStatuses |-> JNull])>>),
        JList(<<JObj([name |-> JStr("Central"),
                      lineStatuses |-> JObj([reason |-> JStr("x")])])>>),
        JList(<<JObj([name |-> JStr("Central"), routeSections |-> JNull,
                      lineStatuses |-> JList(<<JStr("Good Service")>>)])>>)}

\* --- search ------------------------------------------------------------

Match(id) == JObj([id |-> JStr(id), name |-> JStr("Station " \o id)])

SearchBodies ==
  {JObj([matches |-> JList(<<>>)]),
   JObj([matches |-> JList(<<Match("940GZZLUVIC")>>)]),
   JObj([matches |-> JList(<<Match("940GZZLUKSX"), Match("940GZZLUVIC")>>)]),
   JObj([matches |-> JList(<<JObj([name |-> JStr("Victoria")])>>)]),
   JObj([matches |-> JList(<<JObj([id |-> JNum(42)])>>)]),
   JObj([matches |-> JList(<<JNull>>)]),
   JObj([matches |-> JNull]),
   JObj([matches |-> JObj([id |-> JStr("940GZZLUVIC")])]),
   JObj([message |-> JStr("no results")]),
   EmptyObj,
   JList(<<>>),
   JList(<<Match("940GZZLUVIC")>>)}

\* --- arrivals ------------------------------------------------------------

ArrivalPatterns == 1..8

\* The expectedArrival of the i-th arrival of an n-long list of pattern p:
\*   1 ascending times, 2 descending times, 3 shuffled times, all "Z";
\*   4 shuffled, every second one written with the offset +02:00;
\*   5 equal times and missing timestamps; 6 a null and an unparsable one;
\*   7 times with fractions of a second, in the basic format and with offset
\*   +00:00; 8 numbers and booleans.
ExpectedArrival(p, i, n) ==
  CASE p = 1 -> JStr("2024-01-01T10:" \o TwoDigits(i) \o ":00Z")
    [] p = 2 -> JStr("2024-01-01T10:" \o TwoDigits(n + 1 - i) \o ":00Z")
    [] p = 3 -> JStr("2024-01-01T10:" \o TwoDigits((i * 5) % 17) \o ":00Z")
    [] p = 4 -> IF i % 2 = 0
                THEN JStr("2024-01-01T11:" \o TwoDigits((i * 5) % 17) \o ":00+02:00")
                ELSE JStr("2024-01-01T10:" \o TwoDigits((i * 5) % 17) \o ":00Z")
    [] p = 5 -> IF i % 4 = 0 THEN JMissing
                ELSE JStr("2024-01-01T10:" \o TwoDigits(4 + (i % 3)) \o ":00Z")
    [] p = 6 -> IF i = 2 THEN JNull ELSE JStr("soon")
    [] p = 7 -> IF i % 3 = 0
                THEN JStr("2024-01-01T10:" \o TwoDigits(i) \o ":30.5Z")
                ELSE IF i % 3 = 1
                THEN JStr("20240101T10" \o TwoDigits(i) \o "00+0000")
                ELSE JStr("2024-01-01T10:" \o TwoDigits(i) \o ":00+00:00")
    [] OTHER -> IF i % 2 = 0 THEN JBool(TRUE) ELSE JNum(i % 3)

ArrivalRecord(p, i, n) ==
  JObj([lineName |-> IF i % 5 = 0 THEN JMissing ELSE JStr("Victoria"),
        platformName |-> IF i % 3 = 0 THEN JMissing
                         ELSE JStr("Platform " \o ToString(i % 3)),
        destinationName |-> JStr("Dest " \o ToString(i)),
        expectedArrival |-> ExpectedArrival(p, i, n)])

ArrivalList(p, n) == JList([i \in 1..n |-> ArrivalRecord(p, i, n)])

\* The lengths of the lists of arrivals: short ones, and those from the cap
\* of the handler on.
ArrivalLengths == {n \in 0..MaxArrivals : n <= 3 \/ n >= ArrivalsCap}

ArrivalBodies ==
  {ArrivalList(p, n) : p \in ArrivalPatterns, n \in ArrivalLengths}
  \cup {JList(<<EmptyObj>>), JList(<<JNull>>), JList(<<EmptyObj, JStr("x")>>),
        JObj([message |-> JStr("not found")]), JNum(1)}

\* --- bike points -----------------------------------------------------------

Prop(k, v) == JObj([key |-> JStr(k), value |-> v])

\* pattern 1: both properties; 2: properties missing or without value
BikeRecord(p, i) ==
  JObj([commonName |-> IF p = 2 /\ i % 2 = 0 THEN JMissing
                       ELSE JStr("Point " \o ToString(i)),
        additionalProperties |->
          IF p = 1
          THEN JList(<<Prop("TerminalName", JStr("T")), Prop("NbBikes", JStr(ToString(i))),
                       Prop("NbEmptyDocks", JStr(ToString(20 - i)))>>)
          ELSE IF i % 3 = 0 THEN JMissing
          ELSE IF i % 3 = 1 THEN JList(<<JObj([key |-> JStr("NbBikes")]),
                                         JObj([value |-> JStr("9")])>>)
          ELSE JList(<<Prop("NbEmptyDocks", JNum(3)), Prop("NbEmptyDocks", JNum(4))>>)])

BikeList(p, n) == JList([i \in 1..n |-> BikeRecord(p, i)])

BikeBodies ==
  {BikeList(p, n) : p \in 1..2, n \in 0..MaxPoints}
  \cup {JList(<<EmptyObj>>), JList(<<JNull>>),
        JObj([message |-> JStr("error")]), JStr("error"),
        JList(<<JObj([commonName |-> JStr("P"), additionalProperties |-> JNull])>>),
        JList(<<JDict(<<"additionalProperties", "commonName">>,
                      <<JDict(<<"foo">>, <<JNum(1)>>), JStr("P")>>)>>),
        JList(<<JObj([commonName |-> JNull,
                      additionalProperties |-> JList(<<JStr("NbBikes")>>)])>>)}

\* --- stop points -----------------------------------------------------------

LineRef(nm) == JObj([name |-> JStr(nm)])

\* pattern 1: every field; 2: fields missing
StopRecord(p, i) ==
  JObj([commonName |-> IF p = 2 /\ i % 2 = 0 THEN JMissing
                       ELSE JStr("Stop " \o ToString(i)),
        id |-> JStr("940G" \o ToString(i)),
        distance |-> IF p = 2 /\ i % 3 = 0 THEN JMissing ELSE JNum(i * 70),
        modes |-> IF p = 2 /\ i % 3 = 1 THEN JMissing
                  ELSE JList(<<JStr("tube"), JStr("dlr")>>),
        zones |-> IF p = 2 THEN JMissing ELSE JList(<<JStr("1"), JNum(2)>>),
        lines |-> IF p = 2 /\ i % 2 = 1 THEN JMissing
                  ELSE JList(<<LineRef("Victoria"), EmptyObj>>)])

StopList(p, n) == JList([i \in 1..n |-> StopRecord(p, i)])

MalformedStops ==
  {JList(<<EmptyObj>>), JList(<<JNull>>), JNull, JObj([name |-> JStr("x")]),
   JList(<<JObj([commonName |-> JStr("S"), distance |-> JNull])>>),
   JList(<<JObj([commonName |-> JStr("S"), distance |-> JStr("12")])>>),
   JList(<<JObj([commonName |-> JStr("S"), modes |-> JNull])>>),
   JList(<<JObj([commonName |-> JStr("S"), lines |-> JList(<<JObj([name |-> JNull])>>)])>>),
   JList(<<JObj([commonName |-> JStr("S"), modes |-> JList(<<JNum(1)>>)])>>)}

MalformedStopBodies ==
  {JObj([stopPoints |-> x]) : x \in MalformedStops}
  \cup {EmptyObj, JObj([message |-> JStr("error")]), JList(<<>>),
        JList(<<JStr("stopPoints")>>), JNum(3)}

RadiusBodies ==
  {JObj([stopPoints |-> StopList(p, n)]) : p \in 1..2, n \in 0..MaxStops}
  \cup MalformedStopBodies

StationsBodies ==
  {JObj([stopPoints |-> StopList(p, n)]) : p \in 1..2, n \in 0..MaxStations}
  \cup MalformedStopBodies

\* --- station detail --------------------------------------------------------

Facility == JObj([category |-> JStr("Facility"), key |-> JStr("Lifts")])
Facility2 == JObj([category |-> JStr("Facility"), key |-> JStr("Toilets")])
Access == JObj([category |-> JStr("Accessibility"), key |-> JStr("Step free")])
OtherProp == JObj([category |-> JStr("Address"), key |-> JStr("Address")])

PropLists == {JMissing, JList(<<>>), JList(<<OtherProp>>),
              JList(<<Facility, OtherProp, Facility2>>),
              JList(<<Access>>), JList(<<Access, Facility>>),
              JList(<<JObj([category |-> JStr("Facility")])>>)}

StationDetailBodies ==
  {JObj([commonName |-> nm, modes |-> mo, zones |-> zo, lines |-> li,
         additionalProperties |-> pr]) :
     nm \in {JMissing, JStr("Victoria Underground Station")},
     mo \in {JMissing, JList(<<JStr("tube"), JStr("bus")>>)},
     zo \in {JMissing, JList(<<JNum(1)>>)},
     li \in {JMissing, JList(<<LineRef("Victoria"), LineRef("Circle")>>)},
     pr \in PropLists}
  \cup {JList(<<EmptyObj>>), JNum(1),
        JObj([commonName |-> JNull, modes |-> JNull]),
        JObj([commonName |-> JStr("V"), zones |-> JNull]),
        JObj([commonName |-> JStr("King's Cross"),
              zones |-> JList(<<JList(<<JStr("King's"), JStr("a\nb")>>),
                                JDict(<<"b", "a">>, <<JNum(1), JNull>>)>>)]),
        JObj([commonName |-> JStr("V"), lines |-> JList(<<JNull>>)]),
        JObj([commonName |-> JStr("V"), lines |-> JList(<<JObj([name |-> JNull])>>)]),
        JObj([commonName |-> JStr("V"), additionalProperties |-> JList(<<JNull>>)]),
        JObj([commonName |-> JStr("V"),
              additionalProperties |-> JList(<<JObj([category |-> JStr("Facility"),
                                                     key |-> JNull])>>)])}

\* --- modes -----------------------------------------------------------------

ModeRecord(i) ==
  CASE i = 1 -> JObj([modeName |-> JStr("tube"), isTflService |-> JBool(TRUE),
                      isScheduledService |-> JBool(TRUE)])
    [] i = 2 -> JObj([modeName |-> JStr("taxi"), description |-> JStr("Taxis"),
                      isTflService |-> JBool(FALSE)])
    [] OTHER -> EmptyObj

ModeBodies ==
  {JList([i \in 1..n |-> ModeRecord(i)]) : n \in 0..3}
  \cup {JList(<<JNull>>), JObj([message |-> JStr("error")]), JNum(2)}

BodiesOf(st) ==
  CASE st = "line_status" -> LineBodies
    [] st = "res_lines" -> LineBodies
    [] st = "arrivals_search" -> SearchBodies
    [] st = "station_search" -> SearchBodies
    [] st = "arrivals_detail" -> ArrivalBodies
    [] st = "bike_search" -> BikeBodies
    [] st = "station_detail" -> StationDetailBodies
    [] st = "radius" -> RadiusBodies
    [] st = "res_stations" -> StationsBodies
    [] st = "res_modes" -> ModeBodies

ErrorBody == JObj([message |-> JStr("error")])

\* What can happen to a request: no response, a response that is not 2xx,
\* a 2xx response whose body is not JSON, or a 2xx response with a body.
OutcomesOf(st) ==
  {[kind |-> "transport_error", status |-> 0, body |-> JNull],
   [kind |-> "timeout", status |-> 0, body |-> JNull],
   [kind |-> "response", status |-> 200, body |-> Exc("JSONDecodeError")],
   [kind |-> "response", status |-> 200, body |-> JNull]}
  \cup {[kind |-> "response", status |-> c, body |-> ErrorBody] :
          c \in {301, 404, 500}}
  \cup {[kind |-> "response", status |-> 200, body |-> b] : b \in BodiesOf(st)}

\* ---------------------------------------------------------------------
\* The state machine
\* ---------------------------------------------------------------------

Init ==
  /\ pc = "idle"
  /\ op = ""
  /\ arguments = JNull
  /\ step = "none"
  /\ local = NoLocal
  /\ calls = <<>>
  /\ http = NoHttp
  /\ ret = JNull
  /\ formatted = <<>>
  /\ result = NoResult
  /\ now = NowStart
  /\ readings = <<>>
  /\ history = <<>>

\* The handler runs to its next suspension or to its end.
Apply(o) ==
  /\ pc' = IF o.done THEN "done" ELSE "await"
  /\ step' = o.step
  /\ local' = o.local
  /\ calls' = IF o.done THEN calls ELSE Append(calls, o.request)
  /\ formatted' = o.formatted
  /\ result' = o.result

UnknownTool == "get-weather"
UnknownUri == "tfl://unknown"

\* The host calls a tool.
CallTool ==
  /\ pc = "idle"
  /\ \E name \in ToolNames \cup {UnknownTool} :
       \E args \in ArgumentsOf(name) :
         /\ op' = name
         /\ arguments' = args
         /\ Apply(handle_call_tool(name, args))
  /\ UNCHANGED <<http, ret, now, readings, history>>

\* The host reads a resource.
ReadResource ==
  /\ pc = "idle"
  /\ \E uri \in ResourceUris \cup {UnknownUri} :
       /\ op' = uri
       /\ Apply(handle_read_resource(uri))
  /\ arguments' = JNull
  /\ UNCHANGED <<http, ret, now, readings, history>>

\* The clock readings of one invocation: the first j read `clock`, the
\* others one tick later.
ClockRun(clock, j) ==
  [i \in 1..ArrivalsCap |-> IF i <= j THEN clock ELSE Later(clock)]

\* When the clock can tick between the readings of an invocation that reads
\* it `reads` times: not at all (all ArrivalsCap readings are equal), or
\* after one of the first MaxSplit readings.
TickPoints(reads) ==
  {ArrivalsCap}
  \cup {j \in 1..MaxSplit : j < reads /\ Ticks(now) < MaxTicks}

\* The request of step st completes, make_tfl_request returns and the handler
\* runs on with the value; an exception out of make_tfl_request ends it.
\* The clock does not run backwards while the handler runs.
Reply(st) ==
  /\ pc = "await"
  /\ step = st
  /\ \E o \in OutcomesOf(st) :
       \E steady \in {IF IsExc(make_tfl_request(o))
                      THEN Propagate(make_tfl_request(o), local)
                      ELSE Resume(st, make_tfl_request(o), local,
                                  ClockRun(now, ArrivalsCap))} :
         \E j \in TickPoints(steady.reads) :
           \E next \in {IF j = ArrivalsCap THEN steady
                        ELSE Resume(st, make_tfl_request(o), local,
                                    ClockRun(now, j))} :
             /\ http' = o
             /\ ret' = make_tfl_request(o)
             /\ Apply(next)
             /\ readings' = SubSeq(ClockRun(now, j), 1, next.reads)
             /\ now' = IF next.reads = 0 THEN now
                       ELSE ClockRun(now, j)[next.reads]
  /\ UNCHANGED <<op, arguments, history>>

LineStatusReturns == Reply("line_status")
ArrivalsSearchReturns == Reply("arrivals_search")
ArrivalsDetailReturns == Reply("arrivals_detail")
BikeSearchReturns == Reply("bike_search")
StationSearchReturns == Reply("station_search")
StationDetailReturns == Reply("station_detail")
RadiusSearchReturns == Reply("radius")
LinesResourceReturns == Reply("res_lines")
StationsResourceReturns == Reply("res_stations")
ModesResourceReturns == Reply("res_modes")

\* The invocation is over; the server waits for the next one.
Finished ==
  /\ pc = "done"
  /\ pc' = "idle"
  /\ op' = ""
  /\ arguments' = JNull
  /\ step' = "none"
  /\ local' = NoLocal
  /\ calls' = <<>>
  /\ http' = NoHttp
  /\ ret' = JNull
  /\ formatted' = <<>>
  /\ result' = NoResult
  /\ readings' = <<>>
  /\ UNCHANGED <<now, history>>

\* Time passes.
Tick ==
  /\ Ticks(now) < MaxTicks
  /\ now' = Later(now)
  /\ UNCHANGED <<pc, op, arguments, step, local, calls, http, ret, formatted,
               result, readings, history>>

Next ==
  \/ CallTool
  \/ ReadResource
  \/ LineStatusReturns
  \/ ArrivalsSearchReturns
  \/ ArrivalsDetailReturns
  \/ BikeSearchReturns
  \/ StationSearchReturns
  \/ StationDetailReturns
  \/ RadiusSearchReturns
  \/ LinesResourceReturns
  \/ StationsResourceReturns
  \/ ModesResourceReturns
  \/ Finished
  \/ Tick

Spec == Init /\ [][Next]_vars

\* ---------------------------------------------------------------------
\* Properties
\* ---------------------------------------------------------------------

StringTools == {"get-line-status", "get-arrivals", "search-bike-points",
                "get-station-info"}
SearchTools == {"get-arrivals", "get-station-info"}

\* The value the host gave for argument k; "missing" when it gave none.
Arg(k) == IF Has(arguments, k) THEN arguments.v[k] ELSE JMissing

\* s is empty or consists of whitespace only
Blank(s) == \A i \in 1..Len(s) : SubSeq(s, i, i) \in Whitespace

\* s ends with suffix
EndsWith(s, suffix) ==
  Len(s) >= Len(suffix)
  /\ SubSeq(s, Len(s) - Len(suffix) + 1, Len(s)) = suffix

\* s starts with prefix
StartsWith(s, prefix) ==
  Len(s) >= Len(prefix) /\ SubSeq(s, 1, Len(prefix)) = prefix

\* sub occurs in s
Contains(s, sub) ==
  \E i \in 1..(Len(s) - Len(sub) + 1) : SubSeq(s, i, i + Len(sub) - 1) = sub

\* The running tool invocation lacks a required argument, or its string
\* argument is empty or whitespace-only.
BadToolInput ==
  /\ op \in ToolNames
  /\ pc # "idle"
  /\ \/ /\ op \in StringTools
        /\ \/ Arg(StringKey(op)).t = "missing"
           \/ Arg(StringKey(op)).t = "str" /\ Blank(Arg(StringKey(op)).v)
     \/ /\ op = "find-stops-by-radius"
        /\ \E k \in {"lat", "lon", "radius"} : Arg(k).t = "missing"

\* C1 (as claimed): every tool invocation with a required argument missing,
\* or with an empty or whitespace-only string argument, ends by raising and
\* issues no upstream request.
C1_InputErrorBeforeUpstream ==
  BadToolInput => pc = "done" /\ result.kind = "raise" /\ calls = <<>>

\* The first request of a search tool is the search for the stripped station.
IsSearchCall(c) ==
  /\ c.endpoint = "StopPoint/Search/" \o local.text
  /\ Has(c.params, "modes")
  /\ c.params.v.modes = JStr("tube,overground,dlr")

\* The search answer that the last make_tfl_request returned has no match:
\* it is absent, or its "matches" is missing, null or empty.
NoMatches(sr) ==
  \/ sr.t = "null"
  \/ /\ sr.t = "obj"
     /\ \/ ~Has(sr, "matches")
        \/ sr.v.matches.t = "null"
        \/ sr.v.matches = JList(<<>>)

DetailSuffix == IF op = "get-arrivals" THEN "/Arrivals" ELSE ""

\* C2: in get-arrivals and get-station-info the search request comes first
\* and at most one detail request follows it; when the search returns no
\* match the tool returns "Could not find station: <station>" without a
\* detail request; a detail request is for the id of the first match.
C2_SearchThenDetail ==
  op \in SearchTools =>
    /\ Len(calls) <= 2
    /\ Len(calls) >= 1 => IsSearchCall(calls[1])
    /\ (Len(calls) = 1 /\ http.kind # "none" /\ NoMatches(ret)) =>
         /\ pc = "done"
         /\ result = Returned("Could not find station: " \o local.text)
    /\ (pc = "await" /\ Len(calls) = 2) =>
         /\ http.kind = "response"
         /\ ~NoMatches(ret)
         /\ ret.v.matches.t = "list"
         /\ ret.v.matches.v[1].t = "obj"
         /\ Has(ret.v.matches.v[1], "id")
         /\ calls[2].endpoint =
              "StopPoint/" \o PyStr(ret.v.matches.v[1].v.id) \o DetailSuffix
    /\ Len(calls) = 2 => ~IsSearchCall(calls[2])

\* C2 witness: a search with no match ended with the message, and no detail
\* request was issued.
C2_Witness ==
  /\ op = "get-arrivals"
  /\ pc = "done"
  /\ Len(calls) = 1
  /\ ret = JObj([matches |-> JList(<<>>)])
  /\ result = Returned("Could not find station: victoria")

\* The time that an arrival's expectedArrival denotes: the days, seconds and
\* microseconds since 1970-01-01T00:00:00Z.
ArrivalTime(arrival) ==
  TimeUntil(FromIsoFormat(ReplaceZ(arrival.v.expectedArrival.v)),
            [secs |-> 0, us |-> 0])

\* The time a is not after the time b.
NotAfter(a, b) ==
  \/ a.days < b.days
  \/ /\ a.days = b.days
     /\ \/ a.seconds < b.seconds
        \/ a.seconds = b.seconds /\ a.microseconds <= b.microseconds

\* Every record of the list carries an expectedArrival that denotes a time.
AllTimed(body) ==
  /\ body.t = "list"
  /\ \A i \in 1..Len(body.v) :
       /\ body.v[i].t = "obj"
       /\ Has(body.v[i], "expectedArrival")
       /\ body.v[i].v.expectedArrival.t = "str"
       /\ FromIsoFormat(ReplaceZ(body.v[i].v.expectedArrival.v)).ok
       /\ FromIsoFormat(ReplaceZ(body.v[i].v.expectedArrival.v)).aware

\* Every record of the list has a destination name of its own, so that a
\* block of the output tells which record it renders.
DistinctDestinations(body) ==
  /\ \A i \in 1..Len(body.v) :
       Has(body.v[i], "destinationName") /\ body.v[i].v.destinationName.t = "str"
  /\ \A i, j \in 1..Len(body.v) :
       i # j => body.v[i].v.destinationName # body.v[j].v.destinationName

\* The position in the upstream list of the arrival that a block renders.
SourceIndex(block, body) ==
  CHOOSE k \in 1..Len(body.v) :
    Contains(block, "\nDestination: " \o body.v[k].v.destinationName.v \o "\n")

\* get-arrivals returned the blocks of a list of timed arrivals
ArrivalsShown ==
  /\ op = "get-arrivals"
  /\ pc = "done"
  /\ Len(calls) = 2
  /\ result.kind = "text"
  /\ formatted # <<>>
  /\ AllTimed(ret)
  /\ DistinctDestinations(ret)

\* C3 (as claimed): the arrival blocks of the output are in non-decreasing
\* order of expected-arrival time, there are at most 10 of them, and they are
\* the arrivals with the earliest expected-arrival times of the upstream list.
C3_EarliestTenInTimeOrder ==
  ArrivalsShown =>
    LET m == Len(formatted)
        idx == [i \in 1..m |-> SourceIndex(formatted[i], ret)]
        shown == {idx[i] : i \in 1..m}
    IN
    /\ m <= 10
    /\ m = Min(Len(ret.v), 10)
    /\ \A i \in 1..(m - 1) :
         NotAfter(ArrivalTime(ret.v[idx[i]]), ArrivalTime(ret.v[idx[i + 1]]))
    /\ \A k \in (1..Len(ret.v)) \ shown : \A j \in shown :
         NotAfter(ArrivalTime(ret.v[j]), ArrivalTime(ret.v[k]))

\* The radius parameter of the upstream StopPoint request.
SentRadius == calls[1].params.v.radius

RadiusCallIssued == op = "find-stops-by-radius" /\ Len(calls) >= 1

\* C4: the radius sent upstream never exceeds 1000, and it is exactly 1000
\* for every requested radius greater than 1000.
C4_RadiusClamped ==
  RadiusCallIssued =>
    /\ SentRadius.t = "num"
    /\ SentRadius.v <= 1000
    /\ (Arg("radius").t = "num" /\ Arg("radius").v > 1000) => SentRadius.v = 1000

\* C4 witness: a requested radius of 5000 went upstream as 1000.
C4_Witness ==
  /\ RadiusCallIssued
  /\ Arg("radius") = JNum(5000)
  /\ SentRadius = JNum(1000)

\* C5 (as claimed): an absent or zero radius goes upstream as 1000.
C5_AbsentOrZeroIs1000 ==
  (RadiusCallIssued /\ (Arg("radius").t = "missing" \/ Arg("radius") = JNum(0)))
    => SentRadius = JNum(1000)

\* C5 (amended): an absent radius goes upstream as 1000; a radius of zero
\* goes upstream as zero.
C5_AbsentIs1000ZeroIsZero ==
  RadiusCallIssued =>
    /\ Arg("radius").t = "missing" => SentRadius = JNum(1000)
    /\ Arg("radius") = JNum(0) => SentRadius = JNum(0)

\* C5 witness: a radius of zero, with lat and lon given, went upstream as zero.
C5_Witness ==
  /\ RadiusCallIssued
  /\ Arg("lat") = JNum(51)
  /\ Arg("lon") = JNum(-1)
  /\ Arg("radius") = JNum(0)
  /\ SentRadius = JNum(0)

\* C6: make_tfl_request returns the parsed JSON body of a 2xx response and
\* the absent value in every other case; it never raises.
C6_BodyOrAbsent ==
  http.kind # "none" =>
    /\ ~IsExc(ret)
    /\ IF /\ http.kind = "response"
          /\ http.status >= 200 /\ http.status <= 299
          /\ ~IsExc(http.body)
       THEN ret = http.body
       ELSE ret = JNull

\* C6 witness: a response with status 500 and a JSON body came back as the
\* absent value.
C6_Witness ==
  /\ http.kind = "response"
  /\ http.status = 500
  /\ http.body = ErrorBody
  /\ ret = JNull

\* The failure text of the running invocation for its last upstream call.
FailureText ==
  CASE op = "get-line-status" -> "Failed to retrieve line statuses"
    [] op = "get-arrivals" ->
         IF Len(calls) = 1 THEN "Could not find station: " \o local.text
         ELSE "Failed to retrieve arrivals for " \o local.text
    [] op = "search-bike-points" ->
         "Failed to search for bike points near " \o local.text
    [] op = "get-station-info" ->
         IF Len(calls) = 1 THEN "Could not find station: " \o local.text
         ELSE "Failed to retrieve information for " \o local.text
    [] op = "find-stops-by-radius" ->
         "Failed to find stops within " \o PyStr(SentRadius) \o "m of "
         \o PyStr(calls[1].params.v.lat) \o ", "
         \o PyStr(calls[1].params.v.lon)
    [] op = "tfl://lines" -> "Failed to retrieve lines data"
    [] op = "tfl://stations" -> "Failed to retrieve stations data"
    [] op = "tfl://modes" -> "Failed to retrieve transport modes data"
    [] OTHER -> ""

\* C7: when an upstream call returns the absent value, the invocation is
\* over, with no further upstream call, and it returned the failure text of
\* the operation as a normal result.
C7_AbsentEndsWithFailureText ==
  (http.kind # "none" /\ ret = JNull) =>
    /\ pc = "done"
    /\ result = Returned(FailureText)

\* C7 witness: the detail request of get-arrivals timed out after a search
\* that found the station, and the tool returned its failure text.
C7_Witness ==
  /\ op = "get-arrivals"
  /\ Len(calls) = 2
  /\ http.kind = "timeout"
  /\ result = Returned("Failed to retrieve arrivals for victoria")

\* C8 (as claimed): an invocation with valid input, one that reached the
\* upstream, never ends by raising, whatever the upstream returned.
C8_UpstreamResultNeverRaises ==
  (pc = "done" /\ Len(calls) >= 1) => result.kind = "text"

\* The blocks are those of the first cap records, in their order.
BlocksOfFirst(records, cap, F(_)) ==
  /\ Len(formatted) = Min(Len(records), cap)
  /\ \A i \in 1..Len(formatted) : formatted[i] = F(records[i]).v

StopPointsReturned ==
  /\ pc = "done"
  /\ result.kind = "text"
  /\ ret.t = "obj"
  /\ Has(ret, "stopPoints")
  /\ ret.v.stopPoints.t = "list"

\* C9: the output has min(n, cap) blocks, those of the first cap records in
\* upstream order: cap 5 for search-bike-points, 10 for find-stops-by-radius,
\* 50 for the stations view.
C9_FirstCapRecords ==
  /\ (op = "search-bike-points" /\ pc = "done" /\ result.kind = "text"
      /\ ret.t = "list") => BlocksOfFirst(ret.v, 5, format_bike_point)
  /\ (op = "find-stops-by-radius" /\ StopPointsReturned)
       => BlocksOfFirst(ret.v.stopPoints.v, 10, format_nearby_stop)
  /\ (op = "tfl://stations" /\ StopPointsReturned)
       => BlocksOfFirst(ret.v.stopPoints.v, 50, StationBlock)

\* C9 witness: the stations view got more than 50 stop points and returned
\* 50 blocks.
C9_Witness ==
  /\ op = "tfl://stations"
  /\ StopPointsReturned
  /\ Len(ret.v.stopPoints.v) > 50
  /\ Len(formatted) = 50

\* ---------------------------------------------------------------------
\* The formatters on their own: a formatter is applied to one record.
\* op is the formatter, arguments the record.
\* ---------------------------------------------------------------------

FormatterNames == {"format_line_status", "format_arrival", "format_bike_point",
                   "format_station_info", "format_nearby_stop"}

\* Records in which any subset of the fields is missing.
LineStatusRecords ==
  {JObj([name |-> nm, lineStatuses |-> ls]) :
     nm \in {JMissing, JStr("Victoria")},
     ls \in {JMissing, JList(<<>>), JList(<<EmptyObj>>), JList(<<GoodService>>),
             JList(<<JObj([reason |-> JStr("Signal failure")])>>),
             JList(<<Delays, GoodService>>)}}

ArrivalRecords ==
  {JObj([lineName |-> ln, platformName |-> pl, destinationName |-> de,
         expectedArrival |-> ea]) :
     ln \in {JMissing, JStr("Victoria")},
     pl \in {JMissing, JStr("Platform 1")},
     de \in {JMissing, JStr("Brixton")},
     ea \in {JMissing, JStr("2024-01-01T10:05:00Z"), JStr("2024-01-01T10:00:00Z"),
             JStr("2024-01-01T11:04:40+01:00"), JStr("20240101T100430.5+0000"),
             JStr("2024-01-01T10:05:00"), JStr("soon")}}

BikePointRecords ==
  {JObj([commonName |-> nm, additionalProperties |-> pr]) :
     nm \in {JMissing, JStr("Hyde Park Corner")},
     pr \in {JMissing, JList(<<>>),
             JList(<<Prop("NbBikes", JStr("4"))>>),
             JList(<<Prop("NbEmptyDocks", JStr("11")), Prop("NbBikes", JStr("4"))>>),
             JList(<<JObj([key |-> JStr("NbBikes")]),
                     JObj([key |-> JStr("NbEmptyDocks")])>>),
             JList(<<JObj([value |-> JStr("4")])>>)}}

StationInfoRecords ==
  {JObj([commonName |-> nm, modes |-> mo, zones |-> zo, lines |-> li,
         additionalProperties |-> pr]) :
     nm \in {JMissing, JStr("Victoria Underground Station")},
     mo \in {JMissing, JList(<<JStr("tube"), JStr("bus")>>)},
     zo \in {JMissing, JList(<<JNum(1)>>)},
     li \in {JMissing, JList(<<LineRef("Victoria"), EmptyObj>>)},
     pr \in PropLists}

NearbyStopRecords ==
  {JObj([commonName |-> nm, distance |-> di, modes |-> mo, lines |-> li]) :
     nm \in {JMissing, JStr("Victoria Underground Station")},
     di \in {JMissing, JNum(120)},
     mo \in {JMissing, JList(<<JStr("tube")>>)},
     li \in {JMissing, JList(<<LineRef("Victoria"), EmptyObj>>)}}

RecordsOf(f) ==
  CASE f = "format_line_status" -> LineStatusRecords
    [] f = "format_arrival" -> ArrivalRecords
    [] f = "format_bike_point" -> BikePointRecords
    [] f = "format_station_info" -> StationInfoRecords
    [] f = "format_nearby_stop" -> NearbyStopRecords

\* The formatter f applied to a record, at the time clock.
Format(f, rec, clock) ==
  CASE f = "format_line_status" -> format_line_status(rec)
    [] f = "format_arrival" -> format_arrival(rec, clock)
    [] f = "format_bike_point" -> format_bike_point(rec)
    [] f = "format_station_info" -> format_station_info(rec)
    [] f = "format_nearby_stop" -> format_nearby_stop(rec)

FormatterInit ==
  /\ pc = "format"
  /\ op \in FormatterNames
  /\ arguments \in RecordsOf(op)
  /\ step = "none"
  /\ local = NoLocal
  /\ calls = <<>>
  /\ http = NoHttp
  /\ ret = JNull
  /\ formatted = <<>>
  /\ result = NoResult
  /\ now = NowStart
  /\ readings = <<>>
  /\ history = <<>>

\* The formatter is called on the record, for the first time or again.
ApplyFormatter ==
  /\ pc \in {"format", "formatted"}
  /\ Len(history) < MaxFormatCalls
  /\ \E r \in {Format(op, arguments, now)} :
       /\ result' = IF IsExc(r) THEN Raised(r.v, "") ELSE Returned(r.v)
       /\ formatted' = IF IsExc(r) THEN <<>> ELSE <<r.v>>
       /\ history' = Append(history, [out |-> r, at |-> now])
  /\ pc' = "formatted"
  /\ UNCHANGED <<op, arguments, step, local, calls, http, ret, now, readings>>

FormatterNext ==
  \/ ApplyFormatter
  \/ Tick

FormatterSpec == FormatterInit /\ [][FormatterNext]_vars

\* The record the formatter was applied to has no field k.
Lacks(k) == ~Has(arguments, k)

\* The first status entry of a line record gives no severity description.
LacksSeverity ==
  \/ Lacks("lineStatuses")
  \/ arguments.v.lineStatuses = JList(<<>>)
  \/ ~Has(arguments.v.lineStatuses.v[1], "statusSeverityDescription")

\* C10: each formatter, applied to a record with any subset of its fields
\* missing, returns a string without raising, renders each missing name-like
\* field as its placeholder, and ends the string with the separator line.
C10_PlaceholdersAndSeparator ==
  pc = "formatted" =>
    /\ result.kind = "text"
    /\ EndsWith(result.text, "\n---")
    /\ op = "format_line_status" =>
         /\ Lacks("name") => StartsWith(result.text, "Line: Unknown Line\n")
         /\ LacksSeverity => Contains(result.text, "\nStatus: Unknown\n")
    /\ op = "format_arrival" =>
         /\ Lacks("lineName") => StartsWith(result.text, "Line: Unknown Line\n")
         /\ Lacks("platformName") =>
              Contains(result.text, "\nPlatform: Unknown Platform\n")
         /\ Lacks("destinationName") =>
              Contains(result.text, "\nDestination: Unknown Destination\n")
         /\ Lacks("expectedArrival") =>
              Contains(result.text, "\nArrival: Time unknown\n")
    /\ op = "format_bike_point" =>
         /\ Lacks("commonName") =>
              StartsWith(result.text, "Location: Unknown Location\n")
         /\ Lacks("additionalProperties") =>
              /\ Contains(result.text, "\nBikes Available: Unknown\n")
              /\ Contains(result.text, "\nEmpty Docks: Unknown\n")
    /\ (op = "format_station_info" /\ Lacks("commonName")) =>
         StartsWith(result.text, "Station: Unknown Station\n")
    /\ (op = "format_nearby_stop" /\ Lacks("commonName")) =>
         StartsWith(result.text, "Stop: Unknown Location\n")

\* C10 witness: format_arrival on the empty record returned the four
\* placeholders and the separator.
C10_Witness ==
  /\ pc = "formatted"
  /\ op = "format_arrival"
  /\ arguments = JDict(<<>>, <<>>)
  /\ result = Returned("Line: Unknown Line\nPlatform: Unknown Platform\nDestination: Unknown Destination\nArrival: Time unknown\n---")

\* The whole minutes from the clock reading at until the record's
\* expectedArrival, none below zero; -1 when the record gives no such time
\* (none at all, an unparsable one, or one without an offset, which cannot be
\* compared with the clock).
MinutesUntil(arrival, at) ==
  LET raw == PyGet(arrival, "expectedArrival", JStr("")) IN
  IF raw.t # "str" THEN -1
  ELSE LET t == FromIsoFormat(ReplaceZ(raw.v)) IN
       IF ~t.ok \/ ~t.aware THEN -1
       ELSE LET delta == TimeUntil(t, at) IN
            IF delta.days < 0 THEN 0
            ELSE delta.days * 1440 + (delta.seconds \div 60)

\* C11 as stated: any two calls of a formatter on the same record return
\* identical text, whatever happens between the two calls.
C11_SameRecordSameText ==
  \A i, j \in DOMAIN history : history[i].out = history[j].out

\* C11 as amended: any two calls of format_line_status, format_bike_point,
\* format_station_info or format_nearby_stop on the same record return
\* identical text; two calls of format_arrival on the same record return
\* identical text exactly when the whole minutes from the clock to the
\* expected arrival (none below zero) are the same at both calls, so always
\* when the clock reads the same and not always when time has passed.
C11_SameTextUnlessMinutesChange ==
  \A i, j \in DOMAIN history :
    /\ op # "format_arrival" => history[i].out = history[j].out
    /\ op = "format_arrival" =>
         (history[i].out = history[j].out
            <=> MinutesUntil(arguments, history[i].at)
                  = MinutesUntil(arguments, history[j].at))

\* C11 witness: format_arrival was called twice on one record, one tick
\* apart, and returned the same "1 minutes" text both times.
C11_Witness ==
  /\ pc = "formatted"
  /\ op = "format_arrival"
  /\ Len(history) = 2
  /\ history[1].at = NowStart
  /\ history[2].at = Later(NowStart)
  /\ history[1].out = JStr("Line: Victoria\nPlatform: Platform 1\nDestination: Brixton\nArrival: 1 minutes\n---")
  /\ history[2].out = history[1].out

====
